---- MODULE Spec2Model ----
(***************************************************************************)
(* repo-pulse: the metrics aggregation pipeline of src/lib/github.ts and   *)
(* src/lib/metrics.ts, and the cache of the last analysis kept by the      *)
(* pages of src/app.                                                       *)
(*                                                                         *)
(* Five specifications share the variables below:                          *)
(*   SpecScore  calculateHealthScore applied to one bounded input record   *)
(*   SpecRetry  one fetchWithRetry call with any retry budget              *)
(*   Spec       one analyzeRepository run against a nondeterministic       *)
(*              server, every request going through fetchWithRetry         *)
(*   SpecCalc   the calculators of src/lib/metrics.ts on bounded inputs    *)
(*   SpecCache  the home page and the releases page over localStorage      *)
(*                                                                         *)
(* Numbers of type "hours" and "percent" are JavaScript doubles in the     *)
(* source.  They are kept here as exact fractions [num, den] (den > 0);    *)
(* comparisons cross-multiply and Math.round is computed on the fraction.  *)
(***************************************************************************)
EXTENDS Integers, Sequences, FiniteSets, TLC

VARIABLES
    pc,          \* position of analyzeRepository (or of the specification's driver)
    fw,          \* the frame of the fetchWithRetry call in progress
    log,         \* SpecRetry: outcome of every attempt of the call, in order
    waits,       \* SpecRetry: every delay the call has slept, in order
    metricsData, \* the record handed to calculateHealthScore
    healthScore, \* its result
    server,      \* Spec: what the hosting platform holds for owner/repo
    run,         \* Spec: the locals of analyzeRepository
    call,        \* Spec: the locals of the fetcher or calculator being awaited
    emitted,     \* Spec: the events the latest step delivered to onProgress
    lastEvent,   \* Spec: the last event delivered before those
    delivered,   \* Spec: the steps onProgress has received an event of so far
    localStorage,\* SpecCache: the two keys of the last-analysis cache
    clock,       \* SpecCache: Date.now(), in minutes
    view         \* SpecCache: the React state of the page that is open

vars == <<pc, fw, log, waits, metricsData, healthScore,
          server, run, call, emitted, lastEvent, delivered,
          localStorage, clock, view>>

\* The variables only the pages of src/app use.
browser == <<localStorage, clock, view>>

\* The variables only analyzeRepository uses.
orch == <<server, run, call, emitted, lastEvent, delivered>>

\* JavaScript null / an unset local.
Null == [null |-> TRUE]

\* No analyzeRepository run exists (SpecScore, SpecRetry).
NoRun ==
    /\ server = Null /\ run = Null /\ call = Null
    /\ emitted = <<>> /\ lastEvent = Null /\ delivered = {}

\* No page exists (SpecScore, SpecRetry, Spec, SpecCalc).
NoBrowser == localStorage = Null /\ clock = Null /\ view = Null

Min(a, b) == IF a < b THEN a ELSE b
Max(a, b) == IF a > b THEN a ELSE b

\* An exact fraction num/den, den > 0.
Frac(n, d) == [num |-> n, den |-> d]
\* x < k for a fraction x and an integer k.
FracLt(x, k) == x.num < k * x.den

\* Math.round of the fraction n/d (d > 0): the nearest integer, halves going up.
MathRound(n, d) == (2 * n + d) \div (2 * d)

(***************************************************************************)
(* calculateHealthScore, src/lib/metrics.ts:255-305                        *)
(***************************************************************************)

\* 1. Response Time Score (metrics.ts:259-267).  As a mutant: the first
\* threshold is inclusive.
ResponseTimeScore_LE(m) ==
    IF m.medianIssueResponseTime # Null
    THEN LET t == m.medianIssueResponseTime IN
         IF FracLt(t, 24) \/ t.num = 24 * t.den THEN 20
         ELSE IF FracLt(t, 48) THEN 16
         ELSE IF FracLt(t, 72) THEN 12
         ELSE IF FracLt(t, 168) THEN 8
         ELSE 4
    ELSE 10

ResponseTimeScore(m) ==
    IF m.medianIssueResponseTime # Null
    THEN LET t == m.medianIssueResponseTime IN
         IF FracLt(t, 24) THEN 20
         ELSE IF FracLt(t, 48) THEN 16
         ELSE IF FracLt(t, 72) THEN 12
         ELSE IF FracLt(t, 168) THEN 8
         ELSE 4
    ELSE 10

\* 2. Issue Resolution Score (metrics.ts:270-276)
IssueResolutionScore(m) ==
    LET totalIssues == m.openIssuesCount + m.closedIssuesCount IN
    IF totalIssues > 0
    THEN MathRound(m.closedIssuesCount * 20, totalIssues)
    ELSE 10

\* As a mutant: the linear formula of the last branch for every count.
CommitActivityScore_Linear(m) == MathRound(m.totalCommitsLast90Days * 8, 10)

\* As a mutant: below 10 commits every commit counts one point.
CommitActivityScore_PointPerCommit(m) ==
    LET c == m.totalCommitsLast90Days IN
    IF c >= 100 THEN 20
    ELSE IF c >= 50 THEN 16
    ELSE IF c >= 20 THEN 12
    ELSE IF c >= 10 THEN 8
    ELSE MathRound(c * 10, 10)

\* 3. Commit Activity Score (metrics.ts:279-283)
CommitActivityScore(m) ==
    LET c == m.totalCommitsLast90Days IN
    IF c >= 100 THEN 20
    ELSE IF c >= 50 THEN 16
    ELSE IF c >= 20 THEN 12
    ELSE IF c >= 10 THEN 8
    ELSE MathRound(c * 8, 10)

\* 4. Bus Factor Score (metrics.ts:286-290).  As a mutant: the thresholds
\* are inclusive.
BusFactorScore_LE(m) ==
    LET r == m.topContributorRatio IN
    IF r.num <= 40 * r.den THEN 20
    ELSE IF r.num <= 50 * r.den THEN 16
    ELSE IF r.num <= 60 * r.den THEN 12
    ELSE IF r.num <= 70 * r.den THEN 8
    ELSE 4

BusFactorScore(m) ==
    LET r == m.topContributorRatio IN
    IF FracLt(r, 40) THEN 20
    ELSE IF FracLt(r, 50) THEN 16
    ELSE IF FracLt(r, 60) THEN 12
    ELSE IF FracLt(r, 70) THEN 8
    ELSE 4

\* 5. Release Activity Score (metrics.ts:293-302)
ReleaseActivityScore(m) ==
    IF m.latestRelease # Null
    THEN LET daysAgo == m.latestRelease.daysAgo IN
         IF daysAgo <= 30 THEN 20
         ELSE IF daysAgo <= 60 THEN 16
         ELSE IF daysAgo <= 90 THEN 12
         ELSE IF daysAgo <= 180 THEN 8
         ELSE 4
    ELSE 4

\* A scoring function whose issue-resolution block is not normalised to 20 points.
calculateHealthScore_Unscaled(m) ==
    ResponseTimeScore(m) + m.closedIssuesCount * 20
    + CommitActivityScore(m) + BusFactorScore(m) + ReleaseActivityScore(m)

calculateHealthScore(m) ==
    LET score == ResponseTimeScore(m) + IssueResolutionScore(m)
                 + CommitActivityScore(m) + BusFactorScore(m)
                 + ReleaseActivityScore(m)
    IN  Min(100, Max(0, score))

(***************************************************************************)
(* fetchWithRetry, src/lib/github.ts:38-67                                 *)
(*                                                                         *)
(* The call is a frame [phase, i, retries, status, delay, error]:          *)
(*   "fetch"    await fetch(url, options) of loop iteration i is pending   *)
(*   "sleep"    await setTimeout(delay) is pending                         *)
(*   "returned" the call returned the response with this status            *)
(*   "thrown"   the call threw                                             *)
(***************************************************************************)

\* The outcome of an attempt whose fetch() rejects: there is no response.
NoResponse == 0

\* The statuses the server answers with in the model: success, "still
\* computing", two client errors that are never retried, the rate limit, and
\* two server errors (one named in the condition of line 45, one only >= 500).
Statuses == {200, 202, 401, 404, 403, 500, 503}

\* response.ok
Ok(status) == 200 <= status /\ status <= 299

RECURSIVE Pow2(_)
Pow2(n) == IF n <= 0 THEN 1 ELSE 2 * Pow2(n - 1)

FwIdle == [phase |-> "idle", i |-> 0, retries |-> 0, status |-> NoResponse,
           delay |-> 0, error |-> ""]

\* The condition of line 45.  As a mutant: every non-OK status is retried.
IsRetryStatus_AnyError(status) == ~Ok(status)

IsRetryStatus(status) ==
    status = 403 \/ status = 502 \/ status = 503 \/ status = 504 \/ status >= 500

\* Lines 47 and 61.  As a mutant: the backoff without its ceiling.
Backoff_Uncapped(i) == 1000 * Pow2(i)

Backoff(i) == Min(1000 * Pow2(i), 8000)

\* for (let i = 0; i <= retries; i++) { await fetch ... }  throw 'Max retries reached'
FwLoop(i, retries) ==
    IF i <= retries
    THEN [phase |-> "fetch", i |-> i, retries |-> retries, status |-> NoResponse,
          delay |-> 0, error |-> ""]
    ELSE [phase |-> "thrown", i |-> 0, retries |-> retries, status |-> NoResponse,
          delay |-> 0, error |-> "Max retries reached"]

\* The call itself: the first loop test.
fetchWithRetry(retries) == FwLoop(0, retries)

\* `return response`: the frame is gone, the response is what is left.
FwReturn(f, status) ==
    [FwIdle EXCEPT !.phase = "returned", !.retries = f.retries, !.status = status]

\* `throw error`
FwThrow(f, error) ==
    [FwIdle EXCEPT !.phase = "thrown", !.retries = f.retries, !.error = error]

\* await new Promise(resolve => setTimeout(resolve, delay))
FwSleep(f) == [f EXCEPT !.phase = "sleep", !.delay = Backoff(f.i)]

\* Lines 45-54: fetch resolved with a response.  As a mutant: the last
\* permitted attempt throws instead of handing the response back.
FwOnResponse_ThrowWhenExhausted(f, status) ==
    IF IsRetryStatus(status)
    THEN IF f.i < f.retries THEN FwSleep(f) ELSE FwThrow(f, "status")
    ELSE FwReturn(f, status)

FwOnResponse(f, status) ==
    IF IsRetryStatus(status) /\ f.i < f.retries
    THEN FwSleep(f)
    ELSE FwReturn(f, status)

\* Lines 55-64: fetch rejected (network-level failure).
FwOnReject(f) ==
    IF f.i = f.retries
    THEN FwThrow(f, "network")
    ELSE FwSleep(f)

\* The timer fired: `continue` (line 50) or the end of the catch block (line
\* 64), then i++ and the loop test.  As a mutant: the retry is not counted.
FwOnTimeout_NotCounted(f) == FwLoop(f.i, f.retries)

\* As a mutant: the retry is counted twice.
FwOnTimeout_CountedTwice(f) == FwLoop(f.i + 2, f.retries)

FwOnTimeout(f) == FwLoop(f.i + 1, f.retries)

FwDone(f) == f.phase \in {"returned", "thrown"}

(***************************************************************************)
(* SpecRetry: one fetchWithRetry(url, retries) call, retries in            *)
(* 0..MaxRetries, against a server that answers every attempt as it likes. *)
(* log and waits record what the call did.                                 *)
(***************************************************************************)

MaxRetries == 5

RetryInit ==
    /\ pc = "retry"
    /\ fw = FwIdle
    /\ log = <<>>
    /\ waits = <<>>
    /\ metricsData = Null
    /\ healthScore = Null
    /\ NoRun
    /\ NoBrowser

RetryCall ==
    /\ pc = "retry"
    /\ \E retries \in 0..MaxRetries : fw' = fetchWithRetry(retries)
    /\ pc' = "retrying"
    /\ UNCHANGED <<log, waits, metricsData, healthScore>>
    /\ UNCHANGED <<orch, browser>>

RetryResponse ==
    /\ pc = "retrying"
    /\ fw.phase = "fetch"
    /\ \E status \in Statuses :
          /\ fw' = FwOnResponse(fw, status)
          /\ log' = Append(log, status)
    /\ UNCHANGED <<pc, waits, metricsData, healthScore>>
    /\ UNCHANGED <<orch, browser>>

RetryReject ==
    /\ pc = "retrying"
    /\ fw.phase = "fetch"
    /\ fw' = FwOnReject(fw)
    /\ log' = Append(log, NoResponse)
    /\ UNCHANGED <<pc, waits, metricsData, healthScore>>
    /\ UNCHANGED <<orch, browser>>

RetryTimeout ==
    /\ pc = "retrying"
    /\ fw.phase = "sleep"
    /\ waits' = Append(waits, fw.delay)
    /\ fw' = FwOnTimeout(fw)
    /\ UNCHANGED <<pc, log, metricsData, healthScore>>
    /\ UNCHANGED <<orch, browser>>

RetryNext == RetryCall \/ RetryResponse \/ RetryReject \/ RetryTimeout

SpecRetry == RetryInit /\ [][RetryNext]_vars

(***************************************************************************)
(* Lists.  The lists the fetchers build hold up to a thousand items, of    *)
(* which the code reads only a few fields.  A list is kept as a sequence   *)
(* of runs [n |-> k, ...fields]: k consecutive items with these fields.    *)
(***************************************************************************)

RECURSIVE SumN(_)
\* list.length
SumN(runs) == IF runs = <<>> THEN 0 ELSE runs[1].n + SumN(Tail(runs))

RECURSIVE SumSeq(_)
SumSeq(q) == IF q = <<>> THEN 0 ELSE q[1] + SumSeq(Tail(q))

\* x < y for two fractions.
FracLess(x, y) ==
    IF x.den = y.den THEN x.num < y.num ELSE x.num * y.den < y.num * x.den

\* (x + y) / 2
FracAvg(x, y) ==
    IF x.den = y.den
    THEN Frac(x.num + y.num, 2 * x.den)
    ELSE Frac(x.num * y.den + y.num * x.den, 2 * x.den * y.den)

\* [...values].sort((a, b) => a - b): the sort is stable; items are inserted
\* from the back, each in front of the first item it is not greater than.
RECURSIVE InsertAscending(_, _)
InsertAscending(x, r) ==
    IF r = <<>> THEN <<x>>
    ELSE IF ~FracLess(r[1], x) THEN <<x>> \o r
         ELSE <<r[1]>> \o InsertAscending(x, Tail(r))

RECURSIVE SortAscending(_)
SortAscending(values) ==
    IF values = <<>> THEN <<>>
    ELSE CHOOSE sorted \in {InsertAscending(values[1], rest) :
                                 rest \in {SortAscending(Tail(values))}} : TRUE

\* .sort((a, b) => new Date(b.created_at).getTime() - new Date(a.created_at).getTime()),
\* stable as well: newest first.
RECURSIVE InsertNewestFirst(_, _)
InsertNewestFirst(x, r) ==
    IF r = <<>> THEN <<x>>
    ELSE IF ~(r[1].created_at > x.created_at) THEN <<x>> \o r
         ELSE <<r[1]>> \o InsertNewestFirst(x, Tail(r))

RECURSIVE SortNewestFirst(_)
SortNewestFirst(issues) ==
    IF issues = <<>> THEN <<>>
    ELSE CHOOSE sorted \in {InsertNewestFirst(issues[1], rest) :
                                 rest \in {SortNewestFirst(Tail(issues))}} : TRUE

\* q.slice(0, k)
Take(q, k) == SubSeq(q, 1, Min(k, Len(q)))

(***************************************************************************)
(* Time.  Timestamps are whole seconds (the platform's resolution) counted *)
(* from the instant of the analysis.                                       *)
(***************************************************************************)

\* Date.now()
Now == 0

SecondsPerHour == 3600
SecondsPerDay == 86400
Days(d) == d * SecondsPerDay
Hours(h) == h * SecondsPerHour

(***************************************************************************)
(* The calculators of src/lib/metrics.ts                                   *)
(***************************************************************************)

\* calculateMedian (metrics.ts:92-103).  As a mutant: the list is not sorted.
calculateMedian_Unsorted(values) ==
    IF Len(values) = 0 THEN Null
    ELSE LET middle == Len(values) \div 2
         IN  IF Len(values) % 2 = 0
             THEN FracAvg(values[middle], values[middle + 1])
             ELSE values[middle + 1]

calculateMedian(values) ==
    IF Len(values) = 0 THEN Null
    ELSE LET sorted == SortAscending(values)
             middle == Len(sorted) \div 2      \* 0-based index
         IN  IF Len(sorted) % 2 = 0
             THEN FracAvg(sorted[middle], sorted[middle + 1])
             ELSE sorted[middle + 1]

\* The body of calculateIssueResponseTime once the comments are there
\* (metrics.ts:116-127): hours to the first comment of a 'User' account.
ResponseTimeOf(issue, comments) ==
    IF Len(comments) = 0 THEN Null
    ELSE LET users == SelectSeq(comments, LAMBDA c : c.type = "User") IN
         IF users = <<>> THEN Null
         ELSE Frac(users[1].created_at - issue.created_at, SecondsPerHour)

\* As a mutant: the candidates are not sorted before the first five are taken.
ClosedIssuesSample_Unsorted(issues) ==
    Take(SelectSeq(issues.candidates, LAMBDA i : i.comments > 0), 5)

\* The sample of calculateMedianIssueResponseTime (metrics.ts:144-147): the
\* issues of the list that are closed and commented are its candidates.
ClosedIssuesSample(issues) ==
    Take(SortNewestFirst(SelectSeq(issues.candidates, LAMBDA i : i.comments > 0)), 5)

\* commit.author?.login || commit.commit.author.email   (metrics.ts:175).  As
\* a mutant: the email alone.
Contributor_Email(c) == c.email

Contributor(c) == IF c.login # "" THEN c.login ELSE c.email

RECURSIVE CountBy(_, _)
CountBy(commits, who) ==
    IF commits = <<>> THEN 0
    ELSE (IF Contributor(commits[1]) = who THEN commits[1].n ELSE 0)
         + CountBy(Tail(commits), who)

\* As a mutant: without the guard of line 170 the ratio of an empty list is
\* 0 / 0 * 100, which is below no threshold.
calculateTopContributorRatio_Unguarded(commits) ==
    IF SumN(commits) = 0 THEN Frac(0, 0)
    ELSE LET contributors == {Contributor(commits[k]) : k \in 1..Len(commits)}
             maxCommits == CHOOSE m \in {CountBy(commits, w) : w \in contributors} :
                               \A w \in contributors : CountBy(commits, w) <= m
         IN  Frac(maxCommits * 100, SumN(commits))

\* calculateTopContributorRatio (metrics.ts:169-189), a percentage.
calculateTopContributorRatio(commits) ==
    IF SumN(commits) = 0 THEN Frac(0, 1)
    ELSE LET contributors == {Contributor(commits[k]) : k \in 1..Len(commits)}
             maxCommits == CHOOSE m \in {CountBy(commits, w) : w \in contributors} :
                               \A w \in contributors : CountBy(commits, w) <= m
         IN  Frac(maxCommits * 100, SumN(commits))

\* One ReleaseStats entry (metrics.ts:205-223).
ReleaseStat(release) ==
    [n              |-> release.n,
     publishedAt    |-> release.published_at,
     daysAgo        |-> (Now - release.published_at) \div SecondsPerDay,
     totalDownloads |-> SumSeq(release.assets),
     assetsCount    |-> Len(release.assets),
     isPrerelease   |-> release.prerelease]

RECURSIVE MapReleaseStat(_)
MapReleaseStat(releases) ==
    IF releases = <<>> THEN <<>>
    ELSE <<ReleaseStat(releases[1])>> \o MapReleaseStat(Tail(releases))

RECURSIVE SumDownloads(_)
SumDownloads(stats) ==
    IF stats = <<>> THEN 0
    ELSE stats[1].n * stats[1].totalDownloads + SumDownloads(Tail(stats))

\* calculateReleaseStats (metrics.ts:194-243).  As a mutant: the recent
\* releases keep their prereleases.
calculateReleaseStats_RecentPrereleases(releases) ==
    LET ninetyDaysAgo == Now - Days(90)
        releaseStats == MapReleaseStat(releases)
        recentReleases == SelectSeq(releaseStats, LAMBDA r : r.publishedAt >= ninetyDaysAgo)
        totalDownloads == SumDownloads(releaseStats)
        nonPrereleases == SelectSeq(releaseStats, LAMBDA r : ~r.isPrerelease)
    IN  [releases           |-> releaseStats,
         totalReleases      |-> SumN(nonPrereleases),
         releasesLast90Days |-> SumN(recentReleases),
         totalDownloads     |-> totalDownloads,
         averageDownloadsPerRelease |->
             IF SumN(nonPrereleases) > 0
             THEN MathRound(totalDownloads, SumN(nonPrereleases))
             ELSE 0,
         latestRelease      |->
             IF SumN(nonPrereleases) > 0
             THEN [nonPrereleases[1] EXCEPT !.n = 1]
             ELSE Null]

calculateReleaseStats(releases) ==
    LET ninetyDaysAgo == Now - Days(90)
        releaseStats == MapReleaseStat(releases)
        recentReleases == SelectSeq(releaseStats,
                              LAMBDA r : r.publishedAt >= ninetyDaysAgo /\ ~r.isPrerelease)
        totalDownloads == SumDownloads(releaseStats)
        nonPrereleases == SelectSeq(releaseStats, LAMBDA r : ~r.isPrerelease)
    IN  [releases           |-> releaseStats,
         totalReleases      |-> SumN(nonPrereleases),
         releasesLast90Days |-> SumN(recentReleases),
         totalDownloads     |-> totalDownloads,
         averageDownloadsPerRelease |->
             IF SumN(nonPrereleases) > 0
             THEN MathRound(totalDownloads, SumN(nonPrereleases))
             ELSE 0,
         latestRelease      |->
             IF SumN(nonPrereleases) > 0
             THEN [nonPrereleases[1] EXCEPT !.n = 1]
             ELSE Null]

(***************************************************************************)
(* The hosting platform.  server is what it holds for owner/repo; a        *)
(* request that is answered 2xx gets the matching part of it.  Which       *)
(* status an attempt is answered with is up to the platform at each        *)
(* attempt.                                                                *)
(*                                                                         *)
(* An issues page is [open, quiet, prs, candidates]: how many open issues, *)
(* closed issues without comments and pull requests it holds, and its      *)
(* closed issues with comments one by one.  The code tells the first three *)
(* kinds apart only by counting them.                                      *)
(***************************************************************************)

DefaultRetries == 3
StarRetries    == 2
PerPage        == 100
IssuesLimit    == 500
CommitsLimit   == 1000
ReleasesLimit  == 1000
MaxAttempts    == 3

EmptyIssues == [open |-> 0, quiet |-> 0, prs |-> 0, candidates |-> <<>>]

\* issues.length / data.length
IssuesLength(l) == l.open + l.quiet + l.prs + Len(l.candidates)

\* The repository of the end-to-end scenario of section 8: open_issues_count
\* 5 (4 issues and pull requests), 45 closed issues by the search API (41 of
\* them listed, none ever commented), 30 commits of which 18 by one author, a
\* prerelease, a release published 10 days ago and a draft.
SmallRepo ==
    [repository    |-> [name |-> "small", full_name |-> "octo/small",
                        description |-> "a small repository",
                        stargazers_count |-> 12, forks_count |-> 3,
                        subscribers_count |-> 2, license |-> [name |-> "MIT"],
                        open_issues_count |-> 5, updated_at |-> Now - Hours(30)],
     issuePages    |-> <<[open |-> 4, quiet |-> 41, prs |-> 3, candidates |-> <<>>]>>,
     threads       |-> <<>>,
     closedTotal   |-> 45,
     commitPages   |-> << <<[n |-> 18, login |-> "alice", email |-> "alice@example.org",
                             date |-> Now - Hours(2)],
                            [n |-> 12, login |-> "", email |-> "bob@example.org",
                             date |-> Now - Days(3)]>> >>,
     releasePages  |-> << <<[n |-> 1, published_at |-> Now - Days(3), prerelease |-> TRUE,
                             draft |-> FALSE, assets |-> <<5>>],
                            [n |-> 1, published_at |-> Now - Days(10) - Hours(7),
                             prerelease |-> FALSE, draft |-> FALSE, assets |-> <<10, 0>>],
                            [n |-> 1, published_at |-> Now - Days(1), prerelease |-> FALSE,
                             draft |-> TRUE, assets |-> <<>>]>> >>,
     languages     |-> [TypeScript |-> 9000],
     openPRs       |-> 7,
     mergedPRs     |-> 3,
     unmergedPRs   |-> 1,
     stargazers    |-> <<[n |-> 4, starred_at |-> Now - Days(45)],
                         [n |-> 2, starred_at |-> Now - Days(5)]>>,
     endless       |-> FALSE,
     codeFrequency |-> <<[additions |-> 120, deletions |-> -30],
                         [additions |-> 10, deletions |-> 0]>>]

\* One page of a busy tracker: 100 items of which 5 are pull requests.
BusyPage(cands) ==
    [open |-> 30, quiet |-> 65 - Len(cands), prs |-> 5, candidates |-> cands]

\* A busy repository: six full pages of issues, each with pull requests among
\* them, three commented closed issues (answered by a user after 10 hours, by
\* a user after a bot, and by a bot only), 130 commits, no release.
BusyRepo ==
    [repository    |-> [name |-> "busy", full_name |-> "octo/busy",
                        description |-> Null,
                        stargazers_count |-> 4000, forks_count |-> 250,
                        subscribers_count |-> 90, license |-> Null,
                        open_issues_count |-> 180, updated_at |-> Now - Hours(1)],
     issuePages    |-> <<BusyPage(<<[number |-> 601, created_at |-> Now - Days(2), comments |-> 2]>>),
                         BusyPage(<<[number |-> 502, created_at |-> Now - Days(9), comments |-> 1]>>),
                         BusyPage(<<[number |-> 403, created_at |-> Now - Days(20), comments |-> 3]>>),
                         BusyPage(<<>>), BusyPage(<<>>), BusyPage(<<>>)>>,
     threads       |-> (601 :> <<[type |-> "Bot",  created_at |-> Now - Days(2) + 60],
                                 [type |-> "User", created_at |-> Now - Days(2) + Hours(50)]>>
                        @@ 502 :> <<[type |-> "User", created_at |-> Now - Days(9) + Hours(10)]>>
                        @@ 403 :> <<[type |-> "Bot",  created_at |-> Now - Days(20) + 5]>>),
     closedTotal   |-> 400,
     commitPages   |-> << <<[n |-> 45, login |-> "alice", email |-> "alice@example.org",
                             date |-> Now - Hours(1)],
                            [n |-> 55, login |-> "carol", email |-> "carol@example.org",
                             date |-> Now - Days(1)]>>,
                          <<[n |-> 30, login |-> "", email |-> "alice@example.org",
                             date |-> Now - Days(80)]>> >>,
     releasePages  |-> <<>>,
     languages     |-> [Go |-> 500, C |-> 20],
     openPRs       |-> 0,
     mergedPRs     |-> 0,
     unmergedPRs   |-> 0,
     stargazers    |-> <<>>,
     endless       |-> FALSE,
     codeFrequency |-> <<>>]

\* A repository with nothing in it.
EmptyRepo ==
    [repository    |-> [name |-> "empty", full_name |-> "octo/empty",
                        description |-> Null,
                        stargazers_count |-> 0, forks_count |-> 0,
                        subscribers_count |-> 0, license |-> [name |-> ""],
                        open_issues_count |-> 0, updated_at |-> Now - Days(400)],
     issuePages    |-> <<>>,
     threads       |-> <<>>,
     closedTotal   |-> 0,
     commitPages   |-> <<>>,
     releasePages  |-> <<>>,
     languages     |-> <<>>,
     openPRs       |-> 0,
     mergedPRs     |-> 0,
     unmergedPRs   |-> 0,
     stargazers    |-> <<>>,
     endless       |-> FALSE,
     codeFrequency |-> <<>>]

\* Page p of n per-page entries of a long list.
FullPage(entry) == <<[entry EXCEPT !.n = PerPage]>>

\* A repository with a long recent history and nothing else: 1030 commits in
\* the last 90 days (ten full pages and a page of 30), and 130 stargazers of
\* which the platform lists the oldest first.
LongHistoryRepo ==
    [EmptyRepo EXCEPT
        !.repository = [@ EXCEPT !.name = "history", !.full_name = "octo/history",
                                 !.stargazers_count = 130,
                                 !.updated_at = Now - Hours(5)],
        !.commitPages =
            [p \in 1..10 |->
                FullPage([n |-> 0, login |-> "dana", email |-> "dana@example.org",
                          date |-> Now - Days(p)])]
            \o << <<[n |-> 30, login |-> "erin", email |-> "erin@example.org",
                     date |-> Now - Days(60)]>> >>,
        !.stargazers = <<[n |-> 90, starred_at |-> Now - Days(200)],
                         [n |-> 1,  starred_at |-> Now - Days(30)],
                         [n |-> 39, starred_at |-> Now - Days(30) + 1]>>]

\* One page of a nightly channel: 100 releases, 5 of them drafts, the others
\* prereleases.
NightlyPage(p) ==
    <<[n |-> 95, published_at |-> Now - Days(p), prerelease |-> TRUE,
       draft |-> FALSE, assets |-> <<2>>],
      [n |-> 5, published_at |-> Now - Days(p), prerelease |-> TRUE,
       draft |-> TRUE, assets |-> <<>>]>>

\* A repository that publishes nightly prereleases only: ten such pages and
\* a page of 60 older prereleases.
NightlyRepo ==
    [EmptyRepo EXCEPT
        !.repository = [@ EXCEPT !.name = "nightly", !.full_name = "octo/nightly",
                                 !.updated_at = Now - Days(100)],
        !.releasePages =
            [p \in 1..10 |-> NightlyPage(p)]
            \o << <<[n |-> 60, published_at |-> Now - Days(300), prerelease |-> TRUE,
                     draft |-> FALSE, assets |-> <<>>]>> >>]

\* A comment thread: an app account's comment right away, then, if hours > 0,
\* a user's comment that many hours after the issue was created.
Thread(created_at, hours) ==
    <<[type |-> "Bot", created_at |-> created_at + 60]>>
    \o (IF hours > 0
        THEN <<[type |-> "User", created_at |-> created_at + Hours(hours)]>>
        ELSE <<>>)

\* A support tracker: 2 open issues, 1 closed issue nobody commented and the
\* eight closed issues below, listed in the order of their last update.  Of
\* the seven commented ones, #16, #13, #15, #18 and #17 are the five most
\* recently created; users answered #13 after 4 hours and #18 after 30.
SupportRepo ==
    [EmptyRepo EXCEPT
        !.repository = [@ EXCEPT !.name = "support", !.full_name = "octo/support",
                                 !.open_issues_count = 2,
                                 !.updated_at = Now - Days(1)],
        !.issuePages =
            <<[open |-> 2, quiet |-> 1, prs |-> 0,
               candidates |->
                   <<[number |-> 11, created_at |-> Now - Days(40), comments |-> 1],
                     [number |-> 12, created_at |-> Now - Days(1),  comments |-> 0],
                     [number |-> 13, created_at |-> Now - Days(3),  comments |-> 2],
                     [number |-> 14, created_at |-> Now - Days(50), comments |-> 1],
                     [number |-> 15, created_at |-> Now - Days(5),  comments |-> 1],
                     [number |-> 16, created_at |-> Now - Days(2),  comments |-> 1],
                     [number |-> 17, created_at |-> Now - Days(30), comments |-> 1],
                     [number |-> 18, created_at |-> Now - Days(10), comments |-> 2]>>]>>,
        !.threads = (11 :> Thread(Now - Days(40), 1)
                     @@ 12 :> <<>>
                     @@ 13 :> Thread(Now - Days(3), 4)
                     @@ 14 :> Thread(Now - Days(50), 2)
                     @@ 15 :> Thread(Now - Days(5), 0)
                     @@ 16 :> Thread(Now - Days(2), 0)
                     @@ 17 :> Thread(Now - Days(30), 0)
                     @@ 18 :> Thread(Now - Days(10), 30)),
        !.closedTotal = 9]

Repos == {SmallRepo, BusyRepo, EmptyRepo, LongHistoryRepo, NightlyRepo, SupportRepo}

\* A repository run by automation: every change is a pull request and every
\* release is left as a draft.  Its issues list starts with a page of 99 pull
\* requests and the one closed issue, every later page holds 100 pull
\* requests; every page of its commits list holds 100 commits of the same
\* account and every page of its releases list holds 100 drafts.  The server
\* has a page for every page number.
AutomationRepo ==
    [EmptyRepo EXCEPT
        !.repository = [@ EXCEPT !.name = "automation", !.full_name = "octo/automation",
                                 !.updated_at = Now - Hours(1)],
        !.issuePages =
            <<[open |-> 0, quiet |-> 0, prs |-> 99,
               candidates |-> <<[number |-> 21, created_at |-> Now - Days(7),
                                 comments |-> 2]>>],
              [open |-> 0, quiet |-> 0, prs |-> 100, candidates |-> <<>>]>>,
        !.threads = (21 :> Thread(Now - Days(7), 12)),
        !.closedTotal = 1,
        !.commitPages =
            <<FullPage([n |-> 0, login |-> "bot", email |-> "bot@example.org",
                        date |-> Now - Days(1)])>>,
        !.openPRs = 40,
        !.mergedPRs = 900,
        !.unmergedPRs = 100,
        !.releasePages =
            << <<[n |-> 100, published_at |-> Now - Days(1), prerelease |-> FALSE,
                  draft |-> TRUE, assets |-> <<>>]>> >>,
        !.endless = TRUE]

\* What a 2xx answer to ...?per_page=100&page=p carries.
ServerPage(pages, p, empty) == IF p <= Len(pages) THEN pages[p] ELSE empty

\* page++ (github.ts:212, 284, 327).  Of a list without end the server record
\* describes the pages up to the one that all later pages are like, and the
\* page number stays at that one: the answers to later requests are the same.
PageAfter(srv, pages, p) == IF srv.endless /\ p >= Len(pages) THEN p ELSE p + 1

(***************************************************************************)
(* Progress events (AnalysisStatus, metrics.ts:81-85).  The counts that    *)
(* some messages quote are left out of the message.                        *)
(***************************************************************************)

Ev(step, message, progress) ==
    [step |-> step, message |-> message, progress |-> progress]

\* The last event onProgress has received so far.
LastDelivered == IF emitted = <<>> THEN lastEvent ELSE emitted[Len(emitted)]

\* onProgress receives evs, in this order.
Emit(evs) ==
    /\ emitted' = evs
    /\ lastEvent' = LastDelivered
    /\ delivered' = delivered \cup {evs[k].step : k \in 1..Len(evs)}

\* The interpolation of metrics.ts:336, 373 and 388.
Interpolated(base, current, total, span) == base + (current * span) \div total

(***************************************************************************)
(* The fetchers of src/lib/github.ts, from the point where their           *)
(* fetchWithRetry call is over (frame f) to their next await, return or    *)
(* throw.  c holds the fetcher's locals.                                   *)
(***************************************************************************)

\* timer is the delay in ms of the setTimeout the fetcher awaits, 0 for none.
CallIdle == [page |-> 0, acc |-> <<>>, sample |-> <<>>, responseTimes |-> <<>>,
             merged |-> 0, attempts |-> 0, timer |-> 0]

\* setTimeout(resolve, 2000)   (github.ts:467)
PollWait == 2000

\* setTimeout(resolve, 200)   (metrics.ts:160)
SamplePause == 200

Failed(f) == f.phase = "thrown" \/ ~Ok(f.status)

\* data.filter((issue) => !issue.pull_request)   (github.ts:206)
WithoutPullRequests(data) == [data EXCEPT !.prs = 0]

\* issues.push(...actualIssues)
PushIssues(acc, data) ==
    [open       |-> acc.open + data.open,
     quiet      |-> acc.quiet + data.quiet,
     prs        |-> acc.prs + data.prs,
     candidates |-> acc.candidates \o data.candidates]

\* One turn of the loop of fetchIssues (github.ts:187-213) after its request.
fetchIssuesStep(f, c, srv) ==
    IF f.phase = "thrown" THEN [kind |-> "throw"]
    ELSE IF ~Ok(f.status)
    THEN IF f.status = 404
         THEN [kind |-> "return", acc |-> c.acc, progressed |-> FALSE]
         ELSE [kind |-> "throw"]
    ELSE LET data == ServerPage(srv.issuePages, c.page, EmptyIssues) IN
         IF IssuesLength(data) = 0
         THEN [kind |-> "return", acc |-> c.acc, progressed |-> FALSE]
         ELSE LET issues == PushIssues(c.acc, WithoutPullRequests(data)) IN
              IF IssuesLength(data) < PerPage
              THEN [kind |-> "return", acc |-> issues, progressed |-> TRUE]
              ELSE IF IssuesLength(issues) < IssuesLimit
              THEN [kind |-> "next", acc |-> issues, progressed |-> TRUE]
              ELSE [kind |-> "return", acc |-> issues, progressed |-> TRUE]

\* As a mutant: a 5xx status throws like any other non-OK status.
fetchCommitsStep_ThrowOn5xx(f, c, srv) ==
    IF f.phase = "thrown" THEN [kind |-> "throw"]
    ELSE IF ~Ok(f.status)
    THEN [kind |-> "throw"]
    ELSE LET data == ServerPage(srv.commitPages, c.page, <<>>) IN
         IF SumN(data) = 0
         THEN [kind |-> "return", acc |-> c.acc, progressed |-> FALSE]
         ELSE LET commits == c.acc \o data IN
              IF SumN(data) < PerPage
              THEN [kind |-> "return", acc |-> commits, progressed |-> TRUE]
              ELSE IF SumN(commits) < CommitsLimit
              THEN [kind |-> "next", acc |-> commits, progressed |-> TRUE]
              ELSE [kind |-> "return", acc |-> commits, progressed |-> TRUE]

\* One turn of the loop of fetchCommits (github.ts:262-285).
fetchCommitsStep(f, c, srv) ==
    IF f.phase = "thrown" THEN [kind |-> "throw"]
    ELSE IF ~Ok(f.status)
    THEN IF f.status = 504 \/ f.status >= 500
         THEN [kind |-> "return", acc |-> c.acc, progressed |-> FALSE]
         ELSE [kind |-> "throw"]
    ELSE LET data == ServerPage(srv.commitPages, c.page, <<>>) IN
         IF SumN(data) = 0
         THEN [kind |-> "return", acc |-> c.acc, progressed |-> FALSE]
         ELSE LET commits == c.acc \o data IN
              IF SumN(data) < PerPage
              THEN [kind |-> "return", acc |-> commits, progressed |-> TRUE]
              ELSE IF SumN(commits) < CommitsLimit
              THEN [kind |-> "next", acc |-> commits, progressed |-> TRUE]
              ELSE [kind |-> "return", acc |-> commits, progressed |-> TRUE]

\* As a mutant: the drafts are not filtered out.
fetchReleasesStep_KeepDrafts(f, c, srv, limit) ==
    IF f.phase = "thrown" THEN [kind |-> "throw"]
    ELSE IF ~Ok(f.status)
    THEN IF f.status = 504 \/ f.status >= 500
         THEN [kind |-> "return", acc |-> c.acc, progressed |-> FALSE]
         ELSE [kind |-> "throw"]
    ELSE LET data == ServerPage(srv.releasePages, c.page, <<>>) IN
         IF SumN(data) = 0
         THEN [kind |-> "return", acc |-> c.acc, progressed |-> FALSE]
         ELSE LET releases == c.acc \o data IN
              IF SumN(data) < PerPage
              THEN [kind |-> "return", acc |-> releases, progressed |-> TRUE]
              ELSE IF SumN(releases) < limit
              THEN [kind |-> "next", acc |-> releases, progressed |-> TRUE]
              ELSE [kind |-> "return", acc |-> releases, progressed |-> TRUE]

\* One turn of the loop of fetchReleases (github.ts:303-328).
fetchReleasesStep(f, c, srv, limit) ==
    IF f.phase = "thrown" THEN [kind |-> "throw"]
    ELSE IF ~Ok(f.status)
    THEN IF f.status = 504 \/ f.status >= 500
         THEN [kind |-> "return", acc |-> c.acc, progressed |-> FALSE]
         ELSE [kind |-> "throw"]
    ELSE LET data == ServerPage(srv.releasePages, c.page, <<>>) IN
         IF SumN(data) = 0
         THEN [kind |-> "return", acc |-> c.acc, progressed |-> FALSE]
         ELSE LET releases == c.acc \o SelectSeq(data, LAMBDA r : ~r.draft) IN
              IF SumN(data) < PerPage
              THEN [kind |-> "return", acc |-> releases, progressed |-> TRUE]
              ELSE IF SumN(releases) < limit
              THEN [kind |-> "next", acc |-> releases, progressed |-> TRUE]
              ELSE [kind |-> "return", acc |-> releases, progressed |-> TRUE]

\* fetchIssueComments (github.ts:226-243): every failure becomes [].
fetchIssueComments(f, srv, issueNumber) ==
    IF Failed(f) THEN <<>> ELSE srv.threads[issueNumber]

\* The first k entries of a list kept as runs.
RECURSIVE FirstEntries(_, _)
FirstEntries(runs, k) ==
    IF runs = <<>> \/ k <= 0 THEN <<>>
    ELSE IF runs[1].n <= k
    THEN <<runs[1]>> \o FirstEntries(Tail(runs), k - runs[1].n)
    ELSE <<[runs[1] EXCEPT !.n = k]>>

\* What a 2xx answer to .../stargazers?per_page=100 carries (github.ts:411).
StargazersPage(srv) == FirstEntries(srv.stargazers, PerPage)

\* As a mutant: a star given exactly 30 days ago counts as recent.
RecentStars_AtLeast(stargazers) ==
    SumN(SelectSeq(stargazers, LAMBDA s : s.starred_at >= Now - Days(30)))

\* stargazers.filter(s => new Date(s.starred_at).getTime() > thirtyDaysAgo).length
RecentStars(stargazers) ==
    SumN(SelectSeq(stargazers, LAMBDA s : s.starred_at > Now - Days(30)))

\* fetchStarGrowth (github.ts:408-441) after its request.
fetchStarGrowth(f, srv) ==
    IF Failed(f) \/ SumN(StargazersPage(srv)) = 0
    THEN [starsPerMonth |-> 0, recentGrowth |-> 0]
    ELSE [starsPerMonth |-> RecentStars(StargazersPage(srv)),
          recentGrowth  |-> RecentStars(StargazersPage(srv))]

\* As a mutant: the rate is the share of the closed, unmerged pull requests.
PRStats_ClosedShare(merged, closed) ==
    [merged |-> merged, closed |-> closed,
     mergeRate |-> IF merged + closed > 0
                   THEN Frac(closed * 100, merged + closed)
                   ELSE Frac(0, 1)]

\* fetchPRStats (github.ts:390-395) once both counts are there.
PRStats(merged, closed) ==
    [merged |-> merged, closed |-> closed,
     mergeRate |-> IF merged + closed > 0
                   THEN Frac(merged * 100, merged + closed)
                   ELSE Frac(0, 1)]

\* The catch of fetchPRStats (github.ts:396-398).
PRStatsFailed == [merged |-> 0, closed |-> 0, mergeRate |-> Frac(0, 1)]

\* As a mutant: the deletions are added up with their sign.
RECURSIVE SumWeeks_Signed(_)
SumWeeks_Signed(weeks) ==
    IF weeks = <<>> THEN [additions |-> 0, deletions |-> 0]
    ELSE LET rest == SumWeeks_Signed(Tail(weeks))
         IN  [additions |-> rest.additions + weeks[1].additions,
              deletions |-> rest.deletions + weeks[1].deletions]

RECURSIVE SumWeeks(_)
\* additions += week[1]; deletions += Math.abs(week[2])
SumWeeks(weeks) ==
    IF weeks = <<>> THEN [additions |-> 0, deletions |-> 0]
    ELSE LET rest == SumWeeks(Tail(weeks))
             d == weeks[1].deletions
         IN  [additions |-> rest.additions + weeks[1].additions,
              deletions |-> rest.deletions + (IF d < 0 THEN -d ELSE d)]

NoCodeFrequency == [additions |-> 0, deletions |-> 0, totalChanges |-> 0]

\* fetchCodeFrequency (github.ts:475-501) once polling is over.
CodeFrequency(f, srv) ==
    IF Failed(f) \/ f.status = 202 \/ Len(srv.codeFrequency) = 0
    THEN NoCodeFrequency
    ELSE LET data == srv.codeFrequency
             recentWeeks == SubSeq(data, Max(1, Len(data) - 11), Len(data))
             sum == SumWeeks(recentWeeks)
         IN  [additions |-> sum.additions, deletions |-> sum.deletions,
              totalChanges |-> sum.additions + sum.deletions]

(***************************************************************************)
(* analyzeRepository, src/lib/metrics.ts:311-502.  Each operator below is  *)
(* the code from one point up to the next await: it yields the position    *)
(* reached, the request issued, the locals, and the events delivered on    *)
(* the way (after those in ev).                                            *)
(***************************************************************************)

\* The locals as their declarations initialise them.
RunStart ==
    [repository              |-> Null,
     error                   |-> "",
     issues                  |-> EmptyIssues,
     openIssuesCount         |-> 0,
     closedIssuesCount       |-> 0,
     commits                 |-> <<>>,
     releases                |-> <<>>,
     medianIssueResponseTime |-> Null,
     languages               |-> <<>>,
     openPullRequests        |-> 0,
     starsPerMonth           |-> 0,
     recentStarGrowth        |-> 0,
     prMergeRate             |-> Frac(0, 1),
     codeAdditions           |-> 0,
     codeDeletions           |-> 0,
     totalCodeChanges        |-> 0]

\* The owner argument of analyzeRepository.
Owner == "octo"

At(p, f, r, c, ev) == [pc |-> p, fw |-> f, run |-> r, call |-> c, ev |-> ev]

\* metrics.ts:465-490 (lines 413-415 are folded in: they read commits and
\* releases only, which no later line changes).
MetricsData(r) ==
    LET releaseStats == calculateReleaseStats(r.releases) IN
    [owner                   |-> Owner,
     name                    |-> r.repository.name,
     fullName                |-> r.repository.full_name,
     description             |-> r.repository.description,
     stars                   |-> r.repository.stargazers_count,
     forks                   |-> r.repository.forks_count,
     openIssues              |-> r.repository.open_issues_count,
     medianIssueResponseTime |-> r.medianIssueResponseTime,
     openIssuesCount         |-> r.openIssuesCount,
     closedIssuesCount       |-> r.closedIssuesCount,
     totalCommitsLast90Days  |-> SumN(r.commits),
     topContributorRatio     |-> calculateTopContributorRatio(r.commits),
     watchers                |-> r.repository.subscribers_count,   \* n || 0 is n
     lastCommitDate          |-> IF SumN(r.commits) > 0 THEN r.commits[1].date
                                 ELSE r.repository.updated_at,
     openPullRequests        |-> r.openPullRequests,
     license                 |-> IF r.repository.license = Null \/ r.repository.license.name = ""
                                 THEN Null ELSE r.repository.license.name,
     languages               |-> r.languages,
     starsPerMonth           |-> r.starsPerMonth,
     recentStarGrowth        |-> r.recentStarGrowth,
     prMergeRate             |-> r.prMergeRate,
     codeAdditions           |-> r.codeAdditions,
     codeDeletions           |-> r.codeDeletions,
     totalCodeChanges        |-> r.totalCodeChanges,
     releases                |-> releaseStats.releases,
     totalReleases           |-> releaseStats.totalReleases,
     releasesLast90Days      |-> releaseStats.releasesLast90Days,
     totalDownloads          |-> releaseStats.totalDownloads,
     averageDownloadsPerRelease |-> releaseStats.averageDownloadsPerRelease,
     latestRelease           |-> releaseStats.latestRelease]

\* metrics.ts:492-501: the run returns { ...metricsData, healthScore }.  As a
\* mutant: completion is announced before the score is calculated.
Finish_CompleteFirst(r, ev) ==
    At("done", FwIdle, r, CallIdle,
       ev \o <<Ev("complete", "Analysis complete!", 100),
               Ev("calculating", "Calculating health score...", 98)>>)

Finish(r, ev) ==
    At("done", FwIdle, r, CallIdle,
       ev \o <<Ev("calculating", "Calculating health score...", 98),
               Ev("complete", "Analysis complete!", 100)>>)

\* metrics.ts:455-456
EnterCodeFrequency(r, ev) ==
    At("fetchCodeFrequency", fetchWithRetry(DefaultRetries), r, CallIdle,
       ev \o <<Ev("analytics", "Analyzing code frequency...", 96)>>)

\* metrics.ts:450-451
EnterPRStats(r, ev) ==
    At("fetchPRStats.merged", fetchWithRetry(DefaultRetries), r, CallIdle,
       ev \o <<Ev("analytics", "Calculating PR merge rate...", 93)>>)

\* metrics.ts:436-445
EnterAnalytics(r, ev) ==
    At("fetchStarGrowth", fetchWithRetry(StarRetries), r, CallIdle,
       ev \o <<Ev("analytics", "Analyzing star growth...", 90)>>)

\* metrics.ts:413-425
EnterAdditional(r, ev) ==
    At("fetchLanguages", fetchWithRetry(DefaultRetries), r, CallIdle,
       ev \o <<Ev("additional", "Fetching additional data...", 87)>>)

\* metrics.ts:163 and 405-406: the median is there.
LeaveResponseTime(r, responseTimes, ev) ==
    EnterAdditional([r EXCEPT !.medianIssueResponseTime = calculateMedian(responseTimes)],
                    ev \o <<Ev("response-time", "Response time calculated", 85)>>)

\* metrics.ts:398-404 and 144-154
EnterResponseTime(r, ev) ==
    IF IssuesLength(r.issues) > 0
    THEN LET closedIssues == ClosedIssuesSample(r.issues)
             start == Ev("response-time", "Calculating response times...", 70)
         IN  IF Len(closedIssues) = 0
             THEN LeaveResponseTime(r, <<>>, ev \o <<start>>)
             ELSE At("fetchIssueComments", fetchWithRetry(DefaultRetries), r,
                     [CallIdle EXCEPT !.sample = closedIssues], ev \o <<start>>)
    ELSE EnterAdditional(r, ev)

\* metrics.ts:383-387
EnterReleases(r, ev) ==
    At("fetchReleases", fetchWithRetry(DefaultRetries), r, [CallIdle EXCEPT !.page = 1],
       ev \o <<Ev("releases", "Fetching releases...", 55)>>)

\* metrics.ts:368-372
EnterCommits(r, ev) ==
    At("fetchCommits", fetchWithRetry(DefaultRetries), r, [CallIdle EXCEPT !.page = 1],
       ev \o <<Ev("commits", "Fetching commits...", 40)>>)

\* await fetch(url, { headers }) outside fetchWithRetry (metrics.ts:352-355).
FetchBare == [FwIdle EXCEPT !.phase = "bare"]

\* metrics.ts:346-355
EnterIssueCounts(r, ev) ==
    At("issueCounts", FetchBare,
       [r EXCEPT !.openIssuesCount = r.repository.open_issues_count,
                 !.closedIssuesCount = 0],
       CallIdle,
       ev \o <<Ev("issue-counts", "Getting issue statistics...", 32)>>)

\* metrics.ts:331-335
EnterIssues(r, ev) ==
    At("fetchIssues", fetchWithRetry(DefaultRetries), r,
       [CallIdle EXCEPT !.page = 1, !.acc = EmptyIssues],
       ev \o <<Ev("issues", "Fetching issues...", 20)>>)

\* The step goes to where t says.
Goto(t) ==
    \E to \in {t} :
       /\ pc' = to.pc
       /\ fw' = to.fw
       /\ run' = to.run
       /\ call' = to.call
       /\ Emit(to.ev)
       /\ IF to.pc = "done"
          THEN \E m \in {MetricsData(to.run)} :
                  /\ metricsData' = m
                  /\ healthScore' = calculateHealthScore(m)
          ELSE UNCHANGED <<metricsData, healthScore>>
       /\ UNCHANGED <<server, log, waits, browser>>

\* The error a failed run raises: its cause, and whether its message names
\* the repository as owner/repo.
RunError(cause, named) == [cause |-> cause, namesRepository |-> named]

\* fetchRepository (github.ts:158-172) after its request, and the catch of
\* metrics.ts:327-329.
fetchRepositoryFailure(f) ==
    IF f.phase = "thrown" THEN RunError("network", FALSE)
    ELSE IF f.status = 404 THEN RunError("not found", TRUE)
    ELSE IF f.status = 403 THEN RunError("access denied", TRUE)
    ELSE RunError("status", TRUE)

(***************************************************************************)
(* Spec: one run of analyzeRepository(owner, repo, onProgress).            *)
(***************************************************************************)

Init ==
    /\ pc = "start"
    /\ fw = FwIdle
    /\ log = <<>>
    /\ waits = <<>>
    /\ metricsData = Null
    /\ healthScore = Null
    /\ server \in Repos
    /\ run = RunStart
    /\ call = CallIdle
    /\ emitted = <<>>
    /\ lastEvent = Null
    /\ delivered = {}
    /\ NoBrowser

\* metrics.ts:316-324
Analyze ==
    /\ pc = "start"
    /\ Goto(At("fetchRepository", fetchWithRetry(DefaultRetries), run, CallIdle,
               <<Ev("init", "Starting analysis...", 0),
                 Ev("repo", "Fetching repository info...", 10)>>))

frameOnly ==
    <<pc, log, waits, metricsData, healthScore, server, run, call, emitted, lastEvent, delivered,
      browser>>

\* The pending fetch of fetchWithRetry resolves with a response.
Response ==
    /\ fw.phase = "fetch"
    /\ \E status \in Statuses : fw' = FwOnResponse(fw, status)
    /\ UNCHANGED frameOnly

\* The pending fetch of fetchWithRetry rejects.
Reject ==
    /\ fw.phase = "fetch"
    /\ fw' = FwOnReject(fw)
    /\ UNCHANGED frameOnly

\* The backoff timer of fetchWithRetry fires.
Timeout ==
    /\ fw.phase = "sleep"
    /\ fw' = FwOnTimeout(fw)
    /\ UNCHANGED frameOnly

\* The fetch of metrics.ts:352 resolves with a response.
BareResponse ==
    /\ fw.phase = "bare"
    /\ \E status \in Statuses : fw' = FwReturn(fw, status)
    /\ UNCHANGED frameOnly

\* The fetch of metrics.ts:352 rejects.
BareReject ==
    /\ fw.phase = "bare"
    /\ fw' = FwThrow(fw, "network")
    /\ UNCHANGED frameOnly

\* metrics.ts:324-335
RepositoryFetched ==
    /\ pc = "fetchRepository"
    /\ FwDone(fw)
    /\ IF Failed(fw)
       THEN Goto(At("failed", FwIdle, [run EXCEPT !.error = fetchRepositoryFailure(fw)],
                    CallIdle, <<>>))
       ELSE Goto(EnterIssues([run EXCEPT !.repository = server.repository],
                             <<Ev("repo", "Repository info fetched", 15)>>))

\* github.ts:192-213 and metrics.ts:336-355.  As a mutant: the try around
\* fetchIssues is missing, so its error ends the run.
IssuesPage_Uncaught ==
    /\ pc = "fetchIssues"
    /\ FwDone(fw)
    /\ LET s == fetchIssuesStep(fw, call, server)
           ev == IF s.kind # "throw" /\ s.progressed
                 THEN <<Ev("issues", "Fetching issues (n)...",
                           Interpolated(20, IssuesLength(s.acc), IssuesLimit, 10))>>
                 ELSE <<>>
       IN  CASE s.kind = "next" ->
                  Goto(At("fetchIssues", fetchWithRetry(DefaultRetries), run,
                          [call EXCEPT !.page = PageAfter(server, server.issuePages, @),
                                       !.acc = s.acc], ev))
             [] s.kind = "return" ->
                  Goto(EnterIssueCounts([run EXCEPT !.issues = s.acc],
                                        ev \o <<Ev("issues", "Fetched issues", 30)>>))
             [] s.kind = "throw" ->
                  Goto(At("failed", FwIdle, [run EXCEPT !.error = RunError("issues", FALSE)],
                          CallIdle, <<>>))

IssuesPage ==
    /\ pc = "fetchIssues"
    /\ FwDone(fw)
    /\ LET s == fetchIssuesStep(fw, call, server)
           ev == IF s.kind # "throw" /\ s.progressed
                 THEN <<Ev("issues", "Fetching issues (n)...",
                           Interpolated(20, IssuesLength(s.acc), IssuesLimit, 10))>>
                 ELSE <<>>
       IN  CASE s.kind = "next" ->
                  Goto(At("fetchIssues", fetchWithRetry(DefaultRetries), run,
                          [call EXCEPT !.page = PageAfter(server, server.issuePages, @),
                                       !.acc = s.acc], ev))
             [] s.kind = "return" ->
                  Goto(EnterIssueCounts([run EXCEPT !.issues = s.acc],
                                        ev \o <<Ev("issues", "Fetched issues", 30)>>))
             [] s.kind = "throw" ->
                  Goto(EnterIssueCounts(run, <<Ev("issues", "Failed to fetch issues", 30)>>))

\* metrics.ts:356-372
IssueCounted ==
    /\ pc = "issueCounts"
    /\ FwDone(fw)
    /\ LET r == IF fw.phase = "thrown"
                THEN [run EXCEPT !.openIssuesCount = run.issues.open,
                                 !.closedIssuesCount =
                                     run.issues.quiet + Len(run.issues.candidates)]
                ELSE IF Ok(fw.status)
                THEN [run EXCEPT !.closedIssuesCount = server.closedTotal]
                ELSE run
       IN  Goto(EnterCommits(r, <<>>))

\* github.ts:267-285 and metrics.ts:373-387.  As a mutant: the commits of the
\* pages before the failing one are kept.
CommitsPage_KeepPartial ==
    /\ pc = "fetchCommits"
    /\ FwDone(fw)
    /\ LET s == fetchCommitsStep(fw, call, server)
           ev == IF s.kind # "throw" /\ s.progressed
                 THEN <<Ev("commits", "Fetching commits (n)...",
                           Interpolated(40, SumN(s.acc), CommitsLimit, 15))>>
                 ELSE <<>>
       IN  CASE s.kind = "next" ->
                  Goto(At("fetchCommits", fetchWithRetry(DefaultRetries), run,
                          [call EXCEPT !.page = PageAfter(server, server.commitPages, @),
                                       !.acc = s.acc], ev))
             [] s.kind = "return" ->
                  Goto(EnterReleases([run EXCEPT !.commits = s.acc],
                                     ev \o <<Ev("commits", "Fetched commits", 55)>>))
             [] s.kind = "throw" ->
                  Goto(EnterReleases([run EXCEPT !.commits = call.acc],
                                     <<Ev("commits", "Failed to fetch commits", 55)>>))

CommitsPage ==
    /\ pc = "fetchCommits"
    /\ FwDone(fw)
    /\ LET s == fetchCommitsStep(fw, call, server)
           ev == IF s.kind # "throw" /\ s.progressed
                 THEN <<Ev("commits", "Fetching commits (n)...",
                           Interpolated(40, SumN(s.acc), CommitsLimit, 15))>>
                 ELSE <<>>
       IN  CASE s.kind = "next" ->
                  Goto(At("fetchCommits", fetchWithRetry(DefaultRetries), run,
                          [call EXCEPT !.page = PageAfter(server, server.commitPages, @),
                                       !.acc = s.acc], ev))
             [] s.kind = "return" ->
                  Goto(EnterReleases([run EXCEPT !.commits = s.acc],
                                     ev \o <<Ev("commits", "Fetched commits", 55)>>))
             [] s.kind = "throw" ->
                  Goto(EnterReleases(run, <<Ev("commits", "Failed to fetch commits", 55)>>))

\* github.ts:308-328 and metrics.ts:388-404
ReleasesPage ==
    /\ pc = "fetchReleases"
    /\ FwDone(fw)
    /\ LET s == fetchReleasesStep(fw, call, server, ReleasesLimit)
           ev == IF s.kind # "throw" /\ s.progressed
                 THEN <<Ev("releases", "Fetching releases (n)...",
                           Interpolated(55, SumN(s.acc), ReleasesLimit, 10))>>
                 ELSE <<>>
       IN  CASE s.kind = "next" ->
                  Goto(At("fetchReleases", fetchWithRetry(DefaultRetries), run,
                          [call EXCEPT !.page = PageAfter(server, server.releasePages, @),
                                       !.acc = s.acc], ev))
             [] s.kind = "return" ->
                  Goto(EnterResponseTime([run EXCEPT !.releases = s.acc],
                                         ev \o <<Ev("releases", "Fetched releases", 65)>>))
             [] s.kind = "throw" ->
                  Goto(EnterResponseTime(run,
                                         <<Ev("releases", "Failed to fetch releases", 65)>>))

\* metrics.ts:114-127 and 155-160: the comments of the sample's first
\* remaining issue are there; then the 200 ms pause.
CommentsFetched ==
    /\ pc = "fetchIssueComments"
    /\ FwDone(fw)
    /\ LET issue == call.sample[1]
           responseTime == ResponseTimeOf(issue, fetchIssueComments(fw, server, issue.number))
       IN  Goto(At("pause", FwIdle, run,
                   [call EXCEPT !.timer = SamplePause,
                                !.sample = Tail(@),
                                !.responseTimes = IF responseTime # Null
                                                  THEN Append(@, responseTime) ELSE @],
                   <<>>))

\* metrics.ts:153-163: the pause is over; the next issue, or the median.
PauseOver ==
    /\ pc = "pause"
    /\ IF call.sample # <<>>
       THEN Goto(At("fetchIssueComments", fetchWithRetry(DefaultRetries), run,
                    [call EXCEPT !.timer = 0], <<>>))
       ELSE Goto(LeaveResponseTime(run, call.responseTimes, <<>>))

\* As a mutant: fetchLanguages is not awaited, the run goes on while its
\* request is under way.
LanguagesFetched_NotAwaited ==
    /\ pc = "fetchLanguages"
    /\ IF Failed(fw)
       THEN Goto(EnterAnalytics(run, <<>>))
       ELSE Goto(At("fetchOpenPullRequestsCount", fetchWithRetry(DefaultRetries),
                    [run EXCEPT !.languages = server.languages], CallIdle, <<>>))

\* github.ts:344-348 and metrics.ts:425-433
LanguagesFetched ==
    /\ pc = "fetchLanguages"
    /\ FwDone(fw)
    /\ IF Failed(fw)
       THEN Goto(EnterAnalytics(run, <<>>))
       ELSE Goto(At("fetchOpenPullRequestsCount", fetchWithRetry(DefaultRetries),
                    [run EXCEPT !.languages = server.languages], CallIdle, <<>>))

\* github.ts:362-367 and metrics.ts:429-433
OpenPullRequestsCounted ==
    /\ pc = "fetchOpenPullRequestsCount"
    /\ FwDone(fw)
    /\ IF Failed(fw)
       THEN Goto(EnterAnalytics(run, <<>>))
       ELSE Goto(EnterAnalytics([run EXCEPT !.openPullRequests = server.openPRs], <<>>))

\* github.ts:416-441 and metrics.ts:445-451
StarGrowthFetched ==
    /\ pc = "fetchStarGrowth"
    /\ FwDone(fw)
    /\ LET starGrowth == fetchStarGrowth(fw, server) IN
       Goto(EnterPRStats([run EXCEPT !.starsPerMonth = starGrowth.starsPerMonth,
                                     !.recentStarGrowth = starGrowth.recentGrowth], <<>>))

\* github.ts:379-387: the merged-PR query is over.
MergedCounted ==
    /\ pc = "fetchPRStats.merged"
    /\ FwDone(fw)
    /\ IF fw.phase = "thrown"
       THEN Goto(EnterCodeFrequency([run EXCEPT !.prMergeRate = PRStatsFailed.mergeRate], <<>>))
       ELSE Goto(At("fetchPRStats.closed", fetchWithRetry(DefaultRetries), run,
                    [CallIdle EXCEPT !.merged = IF Ok(fw.status) THEN server.mergedPRs ELSE 0],
                    <<>>))

\* github.ts:388-398 and metrics.ts:452-456
ClosedCounted ==
    /\ pc = "fetchPRStats.closed"
    /\ FwDone(fw)
    /\ LET prStats == IF fw.phase = "thrown" THEN PRStatsFailed
                      ELSE PRStats(call.merged,
                                   IF Ok(fw.status) THEN server.unmergedPRs ELSE 0)
       IN  Goto(EnterCodeFrequency([run EXCEPT !.prMergeRate = prStats.mergeRate], <<>>))

\* As a mutant: the wait and another poll follow the last permitted poll too.
CodeFrequencyPolled_WaitAfterLast ==
    /\ pc = "fetchCodeFrequency"
    /\ FwDone(fw)
    /\ IF fw.phase = "returned" /\ fw.status = 202 /\ call.attempts + 1 <= MaxAttempts
       THEN Goto(At("fetchCodeFrequency.wait", FwIdle, run,
                    [call EXCEPT !.attempts = @ + 1, !.timer = PollWait], <<>>))
       ELSE LET codeFreq == CodeFrequency(fw, server) IN
            Goto(Finish([run EXCEPT !.codeAdditions = codeFreq.additions,
                                    !.codeDeletions = codeFreq.deletions,
                                    !.totalCodeChanges = codeFreq.totalChanges], <<>>))

\* github.ts:462-505 and metrics.ts:457-501
CodeFrequencyPolled ==
    /\ pc = "fetchCodeFrequency"
    /\ FwDone(fw)
    /\ IF fw.phase = "returned" /\ fw.status = 202 /\ call.attempts + 1 < MaxAttempts
       THEN Goto(At("fetchCodeFrequency.wait", FwIdle, run,
                    [call EXCEPT !.attempts = @ + 1, !.timer = PollWait], <<>>))
       ELSE LET codeFreq == CodeFrequency(fw, server) IN
            Goto(Finish([run EXCEPT !.codeAdditions = codeFreq.additions,
                                    !.codeDeletions = codeFreq.deletions,
                                    !.totalCodeChanges = codeFreq.totalChanges], <<>>))

\* github.ts:467-468: the 2 s wait is over, poll again.
CodeFrequencyWaited ==
    /\ pc = "fetchCodeFrequency.wait"
    /\ Goto(At("fetchCodeFrequency", fetchWithRetry(DefaultRetries), run,
               [call EXCEPT !.timer = 0], <<>>))

Next ==
    \/ Analyze \/ Response \/ Reject \/ Timeout \/ BareResponse \/ BareReject
    \/ RepositoryFetched \/ IssuesPage \/ IssueCounted \/ CommitsPage \/ ReleasesPage
    \/ CommentsFetched \/ PauseOver \/ LanguagesFetched \/ OpenPullRequestsCounted
    \/ StarGrowthFetched \/ MergedCounted \/ ClosedCounted
    \/ CodeFrequencyPolled \/ CodeFrequencyWaited

Spec == Init /\ [][Next]_vars

\* Runs against a server whose issues and releases lists have no end.
PagingInit ==
    /\ pc = "start"
    /\ fw = FwIdle
    /\ log = <<>>
    /\ waits = <<>>
    /\ metricsData = Null
    /\ healthScore = Null
    /\ server = AutomationRepo
    /\ run = RunStart
    /\ call = CallIdle
    /\ emitted = <<>>
    /\ lastEvent = Null
    /\ delivered = {}
    /\ NoBrowser

SpecPaging == PagingInit /\ [][Next]_vars

\* Every request is answered, rejected or abandoned and every continuation
\* runs, as in FairSpec.
FairSpecPaging == SpecPaging /\ WF_vars(Next)

(***************************************************************************)
(* SpecScore: calculateHealthScore on every input of a bounded grid that   *)
(* holds both sides of every threshold of the five blocks.                 *)
(***************************************************************************)

\* Median response times, in half hours: 0, 23.5, 24, 47.5, 48, 71.5, 72,
\* 167.5, 168 and 1000 hours.
ScoreMedians ==
    {Null} \cup {Frac(n, 2) : n \in {0, 47, 48, 95, 96, 143, 144, 335, 336, 2000}}

ScoreOpenCounts   == {0, 5, 7}
ScoreClosedCounts == {0, 1, 45}
ScoreCommitCounts == {0, 3, 9, 10, 19, 20, 49, 50, 99, 100, 1000}

\* Top-contributor percentages 0, 39.99, 40, 49.99, 50, 59.99, 60 (as 18 of 30
\* commits), 69.99, 70 and 100.
ScoreRatios ==
    {Frac(0, 1), Frac(3999, 100), Frac(40, 1), Frac(4999, 100), Frac(50, 1),
     Frac(5999, 100), Frac(1800, 30), Frac(6999, 100), Frac(70, 1), Frac(100, 1)}

ScoreReleases ==
    {Null} \cup {[daysAgo |-> d] : d \in {0, 10, 30, 31, 60, 61, 90, 91, 180, 181}}

ScoreInputs ==
    [medianIssueResponseTime : ScoreMedians,
     openIssuesCount         : ScoreOpenCounts,
     closedIssuesCount       : ScoreClosedCounts,
     totalCommitsLast90Days  : ScoreCommitCounts,
     topContributorRatio     : ScoreRatios,
     latestRelease           : ScoreReleases]

ScoreInit ==
    /\ pc = "score"
    /\ fw = FwIdle
    /\ log = <<>>
    /\ waits = <<>>
    /\ metricsData \in ScoreInputs
    /\ healthScore = Null
    /\ NoRun
    /\ NoBrowser

\* const healthScore = calculateHealthScore(metricsData)   (metrics.ts:493)
ScoreCall ==
    /\ pc = "score"
    /\ healthScore' = calculateHealthScore(metricsData)
    /\ pc' = "scored"
    /\ UNCHANGED <<fw, log, waits, metricsData>>
    /\ UNCHANGED <<orch, browser>>

ScoreNext == ScoreCall

SpecScore == ScoreInit /\ [][ScoreNext]_vars

(***************************************************************************)
(* Claims about calculateHealthScore (SpecScore)                           *)
(***************************************************************************)

\* C2: for every input record (any median response time including null, any
\* non-negative counts, any ratio in [0,100], any latest release or none) the
\* value calculateHealthScore returns lies in 0..100.
C2_ScoreInRange ==
    pc = "scored" => (healthScore \in Int /\ 0 <= healthScore /\ healthScore <= 100)

\* C2 witness: the best input of the grid has been scored, and scored 100.
C2_Witness ==
    /\ pc = "scored"
    /\ metricsData.medianIssueResponseTime = Frac(0, 2)
    /\ metricsData.openIssuesCount = 0
    /\ metricsData.closedIssuesCount = 45
    /\ metricsData.totalCommitsLast90Days = 1000
    /\ metricsData.topContributorRatio = Frac(0, 1)
    /\ metricsData.latestRelease = [daysAgo |-> 0]
    /\ healthScore = 100

\* The table of section 4.4, one column at a time, on plain numbers.
C3_ResponsePoints(t) ==
    IF t = Null THEN 10
    ELSE CASE t.num < 24 * t.den                              -> 20
           [] 24 * t.den <= t.num /\ t.num < 48 * t.den       -> 16
           [] 48 * t.den <= t.num /\ t.num < 72 * t.den       -> 12
           [] 72 * t.den <= t.num /\ t.num < 168 * t.den      -> 8
           [] 168 * t.den <= t.num                            -> 4

\* round(closed / (open + closed) * 20): the integer p with p - 1/2 <= x < p + 1/2.
C3_ResolutionPoints(open, closed) ==
    IF open + closed = 0 THEN 10
    ELSE CHOOSE p \in 0..20 :
            /\ (2 * p - 1) * (open + closed) <= 40 * closed
            /\ 40 * closed < (2 * p + 1) * (open + closed)

C3_CommitPoints(c) ==
    CASE c >= 100           -> 20
      [] c >= 50 /\ c < 100 -> 16
      [] c >= 20 /\ c < 50  -> 12
      [] c >= 10 /\ c < 20  -> 8
      [] c < 10             -> CHOOSE p \in 0..8 :
                                   (2 * p - 1) * 10 <= 16 * c /\ 16 * c < (2 * p + 1) * 10

C3_RatioPoints(r) ==
    CASE r.num < 40 * r.den                          -> 20
      [] 40 * r.den <= r.num /\ r.num < 50 * r.den   -> 16
      [] 50 * r.den <= r.num /\ r.num < 60 * r.den   -> 12
      [] 60 * r.den <= r.num /\ r.num < 70 * r.den   -> 8
      [] 70 * r.den <= r.num                         -> 4

C3_ReleasePoints(rel) ==
    IF rel = Null THEN 4
    ELSE CASE rel.daysAgo <= 30                          -> 20
           [] 30 < rel.daysAgo /\ rel.daysAgo <= 60      -> 16
           [] 60 < rel.daysAgo /\ rel.daysAgo <= 90      -> 12
           [] 90 < rel.daysAgo /\ rel.daysAgo <= 180     -> 8
           [] 180 < rel.daysAgo                          -> 4

All503(l) == \A k \in 1..Len(l) : l[k] = 503

\* C5, as stated: a call whose every attempt returns HTTP 503 performs exactly
\* retries+1 requests, and then the call fails (throws).
C5_Always503ThenThrows ==
    (pc = "retrying" /\ FwDone(fw) /\ All503(log)) =>
        (Len(log) = fw.retries + 1 /\ fw.phase = "thrown")

\* C5, amended: a call whose every attempt returns HTTP 503 performs exactly
\* retries+1 requests (it ends after none fewer and makes none more), and then
\* returns the last 503 response, which is not OK, to its caller; it does not
\* throw.
C5_Always503ThenReturns503 ==
    (pc = "retrying" /\ All503(log)) =>
        /\ Len(log) <= fw.retries + 1
        /\ FwDone(fw) <=> Len(log) = fw.retries + 1
        /\ FwDone(fw) => (fw.phase = "returned" /\ fw.status = 503 /\ ~Ok(fw.status))

\* C5 witness: the default budget of 3 retries, four 503 answers, call over.
C5_Witness ==
    /\ pc = "retrying"
    /\ fw.retries = 3
    /\ log = <<503, 503, 503, 503>>
    /\ fw.phase = "returned"

\* C6: whatever the attempts end with (retryable status, network-level
\* failure, or a mix), one call performs at most retries+1 requests.
C6_AtMostRetriesPlusOne ==
    pc = "retrying" => Len(log) <= fw.retries + 1

\* C6 witness: a finished call that used its whole budget of 4 requests on a
\* mix of network failures and retryable statuses.
C6_Witness ==
    /\ pc = "retrying"
    /\ FwDone(fw)
    /\ fw.retries = 3
    /\ log = <<NoResponse, 503, NoResponse, 403>>

\* min(1000 * 2^i, 8000), written out.
C7_Delay(i) ==
    CASE i = 0 -> 1000
      [] i = 1 -> 2000
      [] i = 2 -> 4000
      [] i >= 3 -> 8000

\* C7: the wait after failed attempt i (0-based) is min(1000 * 2^i, 8000) ms,
\* whichever way the attempt failed; the waits of a call never decrease and
\* never exceed 8000 ms; every wait is followed by another attempt, so none
\* follows the final attempt.
C7_BackoffSchedule ==
    pc = "retrying" =>
        /\ \A k \in 1..Len(waits) : waits[k] = C7_Delay(k - 1) /\ waits[k] <= 8000
        /\ \A k \in 1..(Len(waits) - 1) : waits[k] <= waits[k + 1]
        /\ fw.phase = "sleep" =>
              (Len(waits) = Len(log) - 1 /\ fw.delay = C7_Delay(Len(log) - 1))
        /\ fw.phase = "fetch" => Len(waits) = Len(log)
        /\ FwDone(fw) => Len(waits) = Len(log) - 1

\* C7 witness: a call with 5 retries has slept 1, 2, 4, 8 and 8 seconds, after
\* a network failure, a 503, a 403, a 500 and another network failure.
C7_Witness ==
    /\ pc = "retrying"
    /\ FwDone(fw)
    /\ waits = <<1000, 2000, 4000, 8000, 8000>>
    /\ SubSeq(log, 1, 5) = <<NoResponse, 503, 403, 500, NoResponse>>

\* C8: a response whose status is neither 403 nor >= 500 ends the call at
\* once: it is the last attempt, it is the response returned, and no wait
\* follows it, whatever remains of the retry budget.
C8_NonRetryableReturnedAtOnce ==
    pc = "retrying" =>
        \A k \in 1..Len(log) :
            (log[k] # NoResponse /\ log[k] # 403 /\ log[k] < 500) =>
                /\ k = Len(log)
                /\ fw.phase = "returned"
                /\ fw.status = log[k]
                /\ Len(waits) = k - 1

\* C8 witness: a 404 on the second attempt of a call with 5 retries left 4
\* attempts unused.
C8_Witness ==
    /\ pc = "retrying"
    /\ fw.retries = 5
    /\ log = <<503, 404>>
    /\ fw.phase = "returned"
    /\ fw.status = 404

(***************************************************************************)
(* Claims about analyzeRepository (Spec)                                   *)
(***************************************************************************)

\* Every request is answered, rejected or abandoned, every sleep ends and
\* every continuation runs: no step of a call in progress waits forever.
FairSpec == Spec /\ WF_vars(Next)

\* C1: once fetchRepository has succeeded the run returns a record whatever
\* the other requests end with; a run fails only when fetchRepository fails.
C1_OnlyRepositoryFetchIsFatal ==
    /\ [](pc = "failed" => (run.repository = Null /\ healthScore = Null))
    /\ [](pc = "done" => (run.repository # Null /\ metricsData # Null /\ healthScore \in 0..100))
    /\ [](run.repository # Null => <>(pc = "done"))

\* C1 witness: a run on the busy repository has returned although the issues,
\* issue-count, commits, languages, pull-request, star and code-frequency
\* requests all failed.
C1_Witness ==
    /\ pc = "done"
    /\ server = BusyRepo
    /\ IssuesLength(run.issues) = 0
    /\ run.closedIssuesCount = 0
    /\ run.commits = <<>>
    /\ run.languages = <<>>
    /\ metricsData.totalCommitsLast90Days = 0
    /\ metricsData.medianIssueResponseTime = Null
    /\ healthScore = 10 + 0 + 0 + 20 + 4

\* The premises of the end-to-end scenario, read off the run's locals.
C4_Scenario ==
    /\ run.repository.open_issues_count = 5
    /\ run.openIssuesCount = 5
    /\ run.closedIssuesCount = 45
    /\ SumN(run.commits) = 30
    /\ \E k \in 1..Len(run.commits) : CountBy(run.commits, Contributor(run.commits[k])) = 18
    /\ \A k \in 1..Len(run.commits) : CountBy(run.commits, Contributor(run.commits[k])) <= 18
    /\ LET stable == SelectSeq(run.releases, LAMBDA r : ~r.prerelease) IN
          /\ stable # <<>>
          /\ Now - stable[1].published_at >= Days(10)
          /\ Now - stable[1].published_at < Days(11)
    /\ run.medianIssueResponseTime = Null

\* C4: a run with open_issues_count = 5, a closed-issue search total of 45, 30
\* fetched commits of which the largest contributor has 18, a latest
\* non-prerelease release 10 days old and no response-time sample returns
\* healthScore = 68 (10 + 18 + 12 + 8 + 20).
C4_EndToEndScore ==
    (pc = "done" /\ C4_Scenario) => healthScore = 68

\* C4 witness: such a run has returned, with 68.
C4_Witness ==
    /\ pc = "done"
    /\ server = SmallRepo
    /\ C4_Scenario
    /\ metricsData.latestRelease.daysAgo = 10
    /\ healthScore = 68

\* The events of the latest step, preceded by the one delivered before them.
Window == (IF lastEvent = Null THEN <<>> ELSE <<lastEvent>>) \o emitted

\* C9: within one run the progress values of successive events delivered to
\* onProgress never decrease, the interpolated events of the issues, commits
\* and releases pages included.
C9_ProgressNeverDecreases ==
    \A k \in 1..(Len(Window) - 1) : Window[k].progress <= Window[k + 1].progress

StepOrder ==
    <<"init", "repo", "issues", "issue-counts", "commits", "releases",
      "response-time", "additional", "analytics", "calculating", "complete">>

StepRank(step) == CHOOSE k \in 1..Len(StepOrder) : StepOrder[k] = step

\* C10: the step identifiers of successive events follow the fixed order and
\* never go back to an earlier step; the first event is init with progress 0;
\* the event complete, with progress 100, is delivered exactly when the run
\* returns a record, and never by a run that fails.
C10_StepsInOrder ==
    /\ \A k \in 1..Len(Window) : Window[k].step \in {StepOrder[j] : j \in 1..Len(StepOrder)}
    /\ \A k \in 1..(Len(Window) - 1) :
          StepRank(Window[k].step) <= StepRank(Window[k + 1].step)
    /\ pc = "start" <=> Window = <<>>
    /\ (lastEvent = Null /\ emitted # <<>>) =>
          (emitted[1].step = "init" /\ emitted[1].progress = 0)
    /\ (\E k \in 1..Len(Window) : Window[k].step = "complete") <=> pc = "done"
    /\ \A k \in 1..Len(Window) :
          Window[k].step = "complete" <=> Window[k].progress = 100
    /\ pc = "done" => LastDelivered = Ev("complete", "Analysis complete!", 100)

\* C10 witness: a run has returned; its last two events are calculating and
\* complete, after an analytics event.
C10_Witness ==
    /\ pc = "done"
    /\ lastEvent.step = "analytics"
    /\ Len(emitted) = 2
    /\ emitted[1].step = "calculating"
    /\ emitted[2] = Ev("complete", "Analysis complete!", 100)

\* C11: a run that returns a record has delivered at least one event of each
\* of the eleven steps, whatever the server did, a repository with no fetched
\* issues included.
C11_EveryStepDelivered ==
    pc = "done" => delivered = {StepOrder[k] : k \in 1..Len(StepOrder)}

\* C12: however fetchRepository fails (404, 403, another non-OK status, or a
\* network failure once the retries are used up), the run aborts without a
\* further request, and its error names the repository as owner/repo
\* together with the cause: not found, access denied / rate limited, or
\* generic.
C12_RepositoryFailureNamesRepository ==
    pc = "failed" =>
        /\ fw = FwIdle
        /\ ~ENABLED Next
        /\ run.error.namesRepository
        /\ run.error.cause \in {"not found", "access denied", "status", "network"}

\* The field names of RepositoryMetrics (metrics.ts:38-79) but healthScore,
\* which the run adds on returning.
RepositoryMetricsFields ==
    {"owner", "name", "fullName", "description", "stars", "forks", "openIssues",
     "medianIssueResponseTime", "openIssuesCount", "closedIssuesCount",
     "totalCommitsLast90Days", "topContributorRatio",
     "releases", "totalReleases", "releasesLast90Days", "totalDownloads",
     "averageDownloadsPerRelease", "latestRelease",
     "watchers", "lastCommitDate", "openPullRequests", "license", "languages",
     "starsPerMonth", "recentStarGrowth", "prMergeRate",
     "codeAdditions", "codeDeletions", "totalCodeChanges"}

\* fetchCommits is about to throw: its request was rejected, or answered
\* with a non-OK status that is not 5xx.
CommitsFetchThrows ==
    /\ pc = "fetchCommits"
    /\ FwDone(fw)
    /\ fetchCommitsStep(fw, call, server).kind = "throw"

\* C13: if the commits fetch throws while fetchRepository succeeded, the
\* returned record has totalCommitsLast90Days = 0, topContributorRatio = 0,
\* lastCommitDate = the repository's updated_at, and every field of
\* RepositoryMetrics.  The throw leaves the commits empty, whatever earlier
\* pages held; nothing after the commits step changes them; and a run that
\* returns with no commits returns these values.
C13_CommitsFailureDefaults ==
    /\ [][CommitsFetchThrows => (run'.commits = <<>> /\ pc' = "fetchReleases")]_vars
    /\ [][run'.commits # run.commits => pc = "fetchCommits"]_vars
    /\ [](pc = "done" =>
            /\ DOMAIN metricsData = RepositoryMetricsFields
            /\ healthScore \in 0..100
            /\ run.commits = <<>> =>
                  /\ metricsData.totalCommitsLast90Days = 0
                  /\ metricsData.topContributorRatio = Frac(0, 1)
                  /\ metricsData.lastCommitDate = run.repository.updated_at)

\* C13 witness: the second commits page of the busy repository has just
\* failed; the 100 commits of its first page are gone.
C13_Witness ==
    /\ server = BusyRepo
    /\ pc = "fetchReleases"
    /\ call.page = 1
    /\ fw.i = 0
    /\ emitted = <<Ev("commits", "Failed to fetch commits", 55),
                   Ev("releases", "Fetching releases...", 55)>>
    /\ lastEvent.step = "commits" /\ lastEvent.progress = 41
    /\ run.commits = <<>>

\* The search request for the closed-issue count has failed: it was rejected
\* or answered with a non-OK status.
IssueCountRequestFails ==
    /\ pc = "issueCounts"
    /\ FwDone(fw)
    /\ Failed(fw)

\* C14: if the search request for the closed-issue count fails, by a thrown
\* network error or by a non-OK response, openIssuesCount and
\* closedIssuesCount of the result are the numbers of open and of closed
\* issues among the issues already fetched.
C14_FallbackOnAnyFailure ==
    /\ [][IssueCountRequestFails =>
            /\ run'.openIssuesCount = run.issues.open
            /\ run'.closedIssuesCount = run.issues.quiet + Len(run.issues.candidates)]_vars
    /\ [][(run'.openIssuesCount # run.openIssuesCount
             \/ run'.closedIssuesCount # run.closedIssuesCount)
          => pc \in {"fetchIssues", "issueCounts"}]_vars
    /\ [](pc = "done" =>
            /\ metricsData.openIssuesCount = run.openIssuesCount
            /\ metricsData.closedIssuesCount = run.closedIssuesCount)

\* The optional step, if any, that the request just over makes fail: its
\* fetcher throws or falls back to its default.
FailingStep ==
    IF ~FwDone(fw) THEN {}
    ELSE CASE pc = "fetchIssues" ->
                IF fetchIssuesStep(fw, call, server).kind = "throw" THEN {"issues"} ELSE {}
           [] pc = "issueCounts" ->
                IF Failed(fw) THEN {"issue-counts"} ELSE {}
           [] pc = "fetchCommits" ->
                IF fetchCommitsStep(fw, call, server).kind = "throw" THEN {"commits"} ELSE {}
           [] pc = "fetchReleases" ->
                IF fetchReleasesStep(fw, call, server, ReleasesLimit).kind = "throw"
                THEN {"releases"} ELSE {}
           [] pc = "fetchIssueComments" ->
                IF Failed(fw) THEN {"response-time"} ELSE {}
           [] pc \in {"fetchLanguages", "fetchOpenPullRequestsCount"} ->
                IF Failed(fw) THEN {"additional"} ELSE {}
           [] pc \in {"fetchStarGrowth", "fetchPRStats.merged", "fetchPRStats.closed",
                      "fetchCodeFrequency"} ->
                IF Failed(fw) THEN {"analytics"} ELSE {}
           [] OTHER -> {}

\* The messages of the events that report a failure (metrics.ts:343, 380,
\* 395 and 409).
ReflectsFailure(e) ==
    e.message \in {"Failed to fetch issues", "Failed to fetch commits",
                   "Failed to fetch releases", "Response time calculation failed"}

\* C15: whenever an optional step fails, an event with that step's identifier
\* that reflects the failure is delivered to onProgress before the first
\* event of the next step.
C15_FailureEventDelivered ==
    [][\A step \in FailingStep :
          \E k \in 1..Len(emitted') :
              /\ emitted'[k].step = step
              /\ ReflectsFailure(emitted'[k])
              /\ \A j \in 1..(k - 1) : StepRank(emitted'[j].step) <= StepRank(step)]_vars

\* x is a percentage: 0 <= x <= 100.
IsPercentage(x) == x.den > 0 /\ 0 <= x.num /\ x.num <= 100 * x.den

\* C16: in every record the run returns, healthScore, topContributorRatio and
\* prMergeRate lie in [0, 100] and every count field is >= 0 (the server's
\* counts being non-negative).
C16_ResultRanges ==
    pc = "done" =>
        /\ healthScore \in 0..100
        /\ IsPercentage(metricsData.topContributorRatio)
        /\ IsPercentage(metricsData.prMergeRate)
        /\ \A field \in {"closedIssuesCount", "openIssuesCount", "totalCommitsLast90Days",
                         "totalReleases", "releasesLast90Days", "totalDownloads",
                         "averageDownloadsPerRelease", "openPullRequests",
                         "starsPerMonth", "recentStarGrowth",
                         "codeAdditions", "codeDeletions", "totalCodeChanges"} :
              metricsData[field] \in Nat

\* C16 witness: a returned record of the small repository with a top
\* contributor of 60 %, a merge rate of 75 %, downloads, stars and code
\* changes (deletions arrive as negative numbers).
C16_Witness ==
    /\ pc = "done"
    /\ server = SmallRepo
    /\ metricsData.topContributorRatio = Frac(1800, 30)
    /\ metricsData.prMergeRate = Frac(300, 4)
    /\ metricsData.totalDownloads = 15
    /\ metricsData.codeDeletions > 0
    /\ metricsData.totalCodeChanges = metricsData.codeAdditions + metricsData.codeDeletions
    /\ metricsData.starsPerMonth > 0
    /\ metricsData.openPullRequests = 7

(***************************************************************************)
(* SpecCalc: the calculators of src/lib/metrics.ts, each called once on an *)
(* input of a bounded set.  call holds the callee, its argument and, once  *)
(* it has returned, its result.                                            *)
(***************************************************************************)

\* All sequences over S of length at most n.
SeqsUpTo(S, n) == UNION {[1..k -> S] : k \in 0..n}

MaxValues == 4

\* Lists of up to MaxValues hours out of 1, 2, 2.5, 3 and 4.
MedianInputs ==
    SeqsUpTo({Frac(1, 1), Frac(2, 1), Frac(5, 2), Frac(3, 1), Frac(4, 1)}, MaxValues)

MaxRuns == 3

\* Commit lists of up to MaxRuns runs of one or two commits, by two people
\* who commit with and without a linked account.
CommitInputs ==
    SeqsUpTo({[n |-> k, login |-> who[1], email |-> who[2], date |-> Now] :
                 k \in 1..2,
                 who \in {<<"alice", "alice@example.org">>, <<"", "alice@example.org">>,
                          <<"bob", "bob@example.org">>, <<"", "bob@example.org">>}},
             MaxRuns)

\* Release lists of up to MaxRuns runs of one or two releases (no drafts:
\* fetchReleases drops them), 10 or 200 days old, without assets or with two
\* assets downloaded 4 times and once, prereleases or not.
ReleaseInputs ==
    SeqsUpTo({[n |-> k, published_at |-> Now - Days(age), assets |-> assets,
               prerelease |-> pre, draft |-> FALSE] :
                 k \in 1..2, age \in {10, 200}, assets \in {<<>>, <<4, 1>>}, pre \in BOOLEAN},
             MaxRuns)

\* The scores calculateHealthScore can return.
ScoreValues == 0..100

Interpretation(label, description, color) ==
    [label |-> label, description |-> description, color |-> color]

\* As a mutant: the bands start above their thresholds.
getHealthScoreInterpretation_Above(score) ==
    IF score > 80
    THEN Interpretation("Excellent",
             "This project is very healthy with active maintenance and community engagement.",
             "green")
    ELSE IF score > 60
    THEN Interpretation("Good",
             "This project is generally well-maintained with room for improvement.",
             "blue")
    ELSE IF score > 40
    THEN Interpretation("Fair",
             "This project shows some signs of maintenance but may have concerns.",
             "yellow")
    ELSE Interpretation("Needs Attention",
             "This project may have maintenance or community engagement concerns.",
             "red")

\* getHealthScoreInterpretation (metrics.ts:507-537)
getHealthScoreInterpretation(score) ==
    IF score >= 80
    THEN Interpretation("Excellent",
             "This project is very healthy with active maintenance and community engagement.",
             "green")
    ELSE IF score >= 60
    THEN Interpretation("Good",
             "This project is generally well-maintained with room for improvement.",
             "blue")
    ELSE IF score >= 40
    THEN Interpretation("Fair",
             "This project shows some signs of maintenance but may have concerns.",
             "yellow")
    ELSE Interpretation("Needs Attention",
             "This project may have maintenance or community engagement concerns.",
             "red")

CalcInputs ==
    {[op |-> "calculateMedian", arg |-> values, result |-> Null] : values \in MedianInputs}
    \cup {[op |-> "calculateTopContributorRatio", arg |-> commits, result |-> Null] :
             commits \in CommitInputs}
    \cup {[op |-> "calculateReleaseStats", arg |-> releases, result |-> Null] :
             releases \in ReleaseInputs}
    \cup {[op |-> "getHealthScoreInterpretation", arg |-> score, result |-> Null] :
             score \in ScoreValues}

CalcInit ==
    /\ pc = "call"
    /\ fw = FwIdle
    /\ log = <<>>
    /\ waits = <<>>
    /\ metricsData = Null
    /\ healthScore = Null
    /\ server = Null
    /\ run = Null
    /\ call \in CalcInputs
    /\ emitted = <<>>
    /\ lastEvent = Null
    /\ delivered = {}
    /\ NoBrowser

calcOnly ==
    <<fw, log, waits, metricsData, healthScore, server, run, emitted, lastEvent, delivered,
      browser>>

\* calculateMedian(responseTimes)   (metrics.ts:163)
MedianCall ==
    /\ pc = "call"
    /\ call.op = "calculateMedian"
    /\ call' = [call EXCEPT !.result = calculateMedian(call.arg)]
    /\ pc' = "returned"
    /\ UNCHANGED calcOnly

\* const topContributorRatio = calculateTopContributorRatio(commits)   (metrics.ts:414)
TopContributorRatioCall ==
    /\ pc = "call"
    /\ call.op = "calculateTopContributorRatio"
    /\ call' = [call EXCEPT !.result = calculateTopContributorRatio(call.arg)]
    /\ pc' = "returned"
    /\ UNCHANGED calcOnly

\* const releaseStats = calculateReleaseStats(releases)   (metrics.ts:415)
ReleaseStatsCall ==
    /\ pc = "call"
    /\ call.op = "calculateReleaseStats"
    /\ call' = [call EXCEPT !.result = calculateReleaseStats(call.arg)]
    /\ pc' = "returned"
    /\ UNCHANGED calcOnly

\* getHealthScoreInterpretation(result.healthScore)   (page.tsx:117-119)
InterpretationCall ==
    /\ pc = "call"
    /\ call.op = "getHealthScoreInterpretation"
    /\ call' = [call EXCEPT !.result = getHealthScoreInterpretation(call.arg)]
    /\ pc' = "returned"
    /\ UNCHANGED calcOnly

CalcNext == MedianCall \/ TopContributorRatioCall \/ ReleaseStatsCall \/ InterpretationCall

SpecCalc == CalcInit /\ [][CalcNext]_vars

(***************************************************************************)
(* Claims about the calculators (SpecCalc)                                 *)
(***************************************************************************)

\* x = y for two fractions.
FracEq(x, y) == x.num * y.den = y.num * x.den

\* The k-th smallest (k = 1 is the smallest) of a non-empty list of numbers:
\* fewer than k items are below it and at least k items are not above it.
KthSmallest(values, k) ==
    CHOOSE x \in {values[i] : i \in 1..Len(values)} :
        /\ Cardinality({i \in 1..Len(values) : FracLess(values[i], x)}) < k
        /\ Cardinality({i \in 1..Len(values) : ~FracLess(x, values[i])}) >= k

\* values with the items at positions i and i + 1 exchanged.
Swapped(values, i) ==
    [k \in 1..Len(values) |->
        IF k = i THEN values[i + 1] ELSE IF k = i + 1 THEN values[i] ELSE values[k]]

\* C17: calculateMedian returns null for an empty list, the middle item of
\* the sorted list for an odd length and the mean of the two middle items of
\* the sorted list for an even length, whatever the order of the input.
C17_MedianIsMiddle ==
    (pc = "returned" /\ call.op = "calculateMedian") =>
        LET values == call.arg
            n == Len(values)
        IN  /\ n = 0 => call.result = Null
            /\ (n > 0 /\ n % 2 = 1) =>
                  /\ call.result # Null
                  /\ FracEq(call.result, KthSmallest(values, (n + 1) \div 2))
            /\ (n > 0 /\ n % 2 = 0) =>
                  /\ call.result # Null
                  /\ LET a == KthSmallest(values, n \div 2)
                         b == KthSmallest(values, n \div 2 + 1)
                     IN  FracEq(call.result, Frac(a.num * b.den + b.num * a.den, 2 * a.den * b.den))
            /\ \A i \in 1..(n - 1) :
                  LET other == calculateMedian(Swapped(values, i))
                  IN  FracEq(other, call.result)

\* C17 witness: the median of [3, 1, 4, 2] is 2.5.
C17_Witness ==
    /\ pc = "returned"
    /\ call.op = "calculateMedian"
    /\ call.arg = <<Frac(3, 1), Frac(1, 1), Frac(4, 1), Frac(2, 1)>>
    /\ FracEq(call.result, Frac(5, 2))

\* The identity a commit is grouped by: the author's login when there is one,
\* the commit author's email otherwise.
GroupOf(c) == IF c.login # "" THEN [login |-> c.login] ELSE [email |-> c.email]

\* How many of the commits belong to group g.
GroupSize(commits, g) == SumN(SelectSeq(commits, LAMBDA c : GroupOf(c) = g))

\* C18: calculateTopContributorRatio is 0 for an empty list and otherwise
\* 100 * (size of the largest group) / (number of commits), the commits being
\* grouped by author login when present and by commit-author email otherwise;
\* it is 100 when one identity made all commits and never below 100 / k for
\* k distinct identities.
C18_TopContributorRatio ==
    (pc = "returned" /\ call.op = "calculateTopContributorRatio") =>
        LET commits == call.arg
            total == SumN(commits)
            groups == {GroupOf(commits[i]) : i \in 1..Len(commits)}
            k == Cardinality(groups)
        IN  /\ total = 0 => FracEq(call.result, Frac(0, 1))
            /\ total > 0 =>
                  /\ \E g \in groups :
                        /\ \A h \in groups : GroupSize(commits, h) <= GroupSize(commits, g)
                        /\ FracEq(call.result, Frac(100 * GroupSize(commits, g), total))
                  /\ k = 1 => FracEq(call.result, Frac(100, 1))
                  /\ call.result.num * k >= 100 * call.result.den

\* C18 witness: of five commits, two are by the account alice, one by alice's
\* email without an account and two by bob: three groups, 40 %.
C18_Witness ==
    /\ pc = "returned"
    /\ call.op = "calculateTopContributorRatio"
    /\ call.arg = <<[n |-> 2, login |-> "alice", email |-> "alice@example.org", date |-> Now],
                    [n |-> 1, login |-> "", email |-> "alice@example.org", date |-> Now],
                    [n |-> 2, login |-> "bob", email |-> "bob@example.org", date |-> Now]>>
    /\ FracEq(call.result, Frac(40, 1))

\* The asset download counts of the releases, added up.
RECURSIVE DownloadsOf(_)
DownloadsOf(releases) ==
    IF releases = <<>> THEN 0
    ELSE releases[1].n * SumSeq(releases[1].assets) + DownloadsOf(Tail(releases))

\* The releases that are not prereleases.
Stable(releases) == SelectSeq(releases, LAMBDA r : ~r.prerelease)

\* C19: in calculateReleaseStats totalDownloads is the sum of the asset
\* download counts over all releases, prereleases included, while
\* totalReleases counts the non-prerelease releases only; so totalReleases <=
\* number of releases and releasesLast90Days <= totalReleases.
C19_ReleaseTotals ==
    (pc = "returned" /\ call.op = "calculateReleaseStats") =>
        /\ call.result.totalDownloads = DownloadsOf(call.arg)
        /\ call.result.totalReleases = SumN(Stable(call.arg))
        /\ call.result.totalReleases <= SumN(call.arg)
        /\ call.result.releasesLast90Days <= call.result.totalReleases

\* C19 witness: a recent prerelease with 5 downloads and two old releases
\* with 5 downloads each: 15 downloads, 2 releases, none recent.
C19_Witness ==
    /\ pc = "returned"
    /\ call.op = "calculateReleaseStats"
    /\ call.arg = <<[n |-> 1, published_at |-> Now - Days(10), assets |-> <<4, 1>>,
                     prerelease |-> TRUE, draft |-> FALSE],
                    [n |-> 2, published_at |-> Now - Days(200), assets |-> <<4, 1>>,
                     prerelease |-> FALSE, draft |-> FALSE]>>
    /\ call.result.totalDownloads = 15
    /\ call.result.totalReleases = 2
    /\ call.result.releasesLast90Days = 0

\* C20: averageDownloadsPerRelease is computed over the non-prerelease
\* entries only: it is round((sum of the download totals of the
\* non-prerelease releases) / (their number)), 0 when there is none; the
\* downloads of prereleases do not influence it.
C20_AverageOverStableReleases ==
    (pc = "returned" /\ call.op = "calculateReleaseStats") =>
        LET stable == Stable(call.arg) IN
        call.result.averageDownloadsPerRelease =
            IF SumN(stable) = 0 THEN 0
            ELSE MathRound(DownloadsOf(stable), SumN(stable))

(***************************************************************************)
(* The releases of the result.                                             *)
(***************************************************************************)

\* What the pages 1..k of a paged list hold, in the platform's order.
RECURSIVE PagesUpTo(_, _)
PagesUpTo(pages, k) ==
    IF k = 0 THEN <<>> ELSE PagesUpTo(pages, k - 1) \o pages[k]

\* The entries of releaseStats describe these releases, one each, in order.
DescribesInOrder(releaseStats, releases) ==
    /\ Len(releaseStats) = Len(releases)
    /\ \A i \in 1..Len(releases) :
          /\ releaseStats[i].n = releases[i].n
          /\ releaseStats[i].publishedAt = releases[i].published_at
          /\ releaseStats[i].isPrerelease = releases[i].prerelease
          /\ releaseStats[i].assetsCount = Len(releases[i].assets)

\* C21: the releases list of a returned record has one entry per fetched
\* release that is not a draft, in the platform's order (the fetched releases
\* being those of the first k pages, for some k); latestRelease is the first
\* entry of that list that is not a prerelease, and it is null exactly when
\* totalReleases is 0, which includes the case of prereleases only.
C21_ReleasesListAndLatest ==
    pc = "done" =>
        LET releases == metricsData.releases
            stable == {i \in 1..Len(releases) : ~releases[i].isPrerelease}
        IN  /\ \E k \in 0..Len(server.releasePages) :
                  DescribesInOrder(releases,
                      SelectSeq(PagesUpTo(server.releasePages, k), LAMBDA r : ~r.draft))
            /\ IF stable = {}
               THEN metricsData.latestRelease = Null
               ELSE \E i \in stable :
                       /\ \A j \in stable : i <= j
                       /\ metricsData.latestRelease = [releases[i] EXCEPT !.n = 1]
            /\ (metricsData.latestRelease = Null) <=> (metricsData.totalReleases = 0)

\* A returned record whose list starts with a prerelease followed by a
\* release, fetched from a page that also held a draft.
C21_Witness ==
    /\ pc = "done"
    /\ \E p \in 1..Len(server.releasePages) :
          \E i \in 1..Len(server.releasePages[p]) : server.releasePages[p][i].draft
    /\ Len(metricsData.releases) = 2
    /\ metricsData.releases[1].isPrerelease
    /\ metricsData.latestRelease = [metricsData.releases[2] EXCEPT !.n = 1]

(***************************************************************************)
(* The interpretation of the score.                                        *)
(***************************************************************************)

\* The bands from the lowest to the highest.
BandRank(label) ==
    CASE label = "Needs Attention" -> 0
      [] label = "Fair"            -> 1
      [] label = "Good"            -> 2
      [] label = "Excellent"       -> 3

\* C22: getHealthScoreInterpretation gives every score of 0..100 exactly one
\* band: Excellent (green) from 80, Good (blue) for 60..79, Fair (yellow) for
\* 40..59, Needs Attention (red) below 40; a higher score never gets a lower
\* band.
C22_InterpretationBands ==
    (pc = "returned" /\ call.op = "getHealthScoreInterpretation") =>
        LET score == call.arg
            band == <<call.result.label, call.result.color>>
        IN  /\ score \in 80..100 => band = <<"Excellent", "green">>
            /\ score \in 60..79  => band = <<"Good", "blue">>
            /\ score \in 40..59  => band = <<"Fair", "yellow">>
            /\ score \in 0..39   => band = <<"Needs Attention", "red">>
            /\ \A lower \in 0..score :
                  BandRank(getHealthScoreInterpretation(lower).label)
                      <= BandRank(call.result.label)

\* The lowest score of the highest band has been interpreted.
C22_Witness ==
    /\ pc = "returned"
    /\ call.op = "getHealthScoreInterpretation"
    /\ call.arg = 80
    /\ call.result.label = "Excellent"

(***************************************************************************)
(* One request at a time.                                                  *)
(***************************************************************************)

\* The frame has a request under way: fetch has been called and has neither
\* resolved nor rejected.
Outstanding(f) == f.phase \in {"fetch", "bare"}

\* The frame is between two attempts of one fetchWithRetry call.
BackingOff(f) == f.phase = "sleep"

\* C23: during a run at most one request is under way: a request is issued
\* only in a step that starts with no request under way, and analyzeRepository
\* moves on (to the next request of a step, to the next step or to its end)
\* only once the fetchWithRetry call it awaits has returned or thrown, so
\* neither with a request under way nor between two attempts.
C23_OneRequestAtATime ==
    [][ /\ (Outstanding(fw') /\ fw' # fw) => ~Outstanding(fw)
        /\ (pc' # pc \/ run' # run \/ call' # call)
               => (~Outstanding(fw) /\ ~BackingOff(fw)) ]_vars

\* The languages request is under way in its second attempt, every step
\* before it being over.
C23_Witness ==
    /\ pc = "fetchLanguages"
    /\ Outstanding(fw)
    /\ fw.i = 1
    /\ run.repository # Null
    /\ {"repo", "issues", "issue-counts", "commits", "releases"} \subseteq delivered

(***************************************************************************)
(* SpecCache: the home page (src/app/page.tsx) and the releases page       *)
(* (src/app/releases/page.tsx) of one browser tab, over the two            *)
(* localStorage keys lastAnalysisResult and lastAnalysisTimestamp.  An     *)
(* analyzeRepository call is an await that either returns the record of    *)
(* the requested repository or throws (Spec has its steps).  pc is the     *)
(* handler that is awaiting, view the React state of the open page.        *)
(***************************************************************************)

\* const oneHour = 60 * 60 * 1000   (page.tsx:63, releases/page.tsx:36)
OneHour == 60

\* The clock moves in steps of TickMinutes, up to MaxClock.
TickMinutes == 30
MaxClock == 120

\* What the user types or the URL carries, split at "/".
Requests == {<<"octo", "small">>, <<"octo", "busy">>, <<"acme", "small">>}

\* repository.match(/^[\w-]+\/[\w.-]+$/)   (page.tsx:85)
ValidFormat(repository) == Len(repository) = 2

\* The records analyzeRepository(owner, name) can return, as far as the
\* pages read them: owner, name and the releases list (here the tags).
Snapshots(owner, name) ==
    {[owner |-> owner, name |-> name, releases |-> tags] : tags \in {<<>>, <<"v1.0">>}}

\* JSON.stringify / JSON.parse and Date.now().toString() / parseInt: what is
\* stored is text.
JSONStringify(value) == [json |-> value]
JSONParse(text) == text.json
NumberToString(n) == [digits |-> n]
ParseInt(text) == text.digits

NoStorage == [lastAnalysisResult |-> Null, lastAnalysisTimestamp |-> Null]

\* localStorage.setItem of both keys (page.tsx:106-107, releases/page.tsx:57-58)
SaveAnalysis(metrics) ==
    [lastAnalysisResult    |-> JSONStringify(metrics),
     lastAnalysisTimestamp |-> NumberToString(clock)]

\* No page is open.
NoView == [page |-> "none", repository |-> <<>>, result |-> Null,
           releases |-> <<>>, error |-> Null, loading |-> FALSE]

\* setError(message)
Error(message) == [message |-> message]

\* As a mutant: a snapshot of exactly one hour still counts as fresh.
IsFresh_UpToOneHour(storage) ==
    /\ storage.lastAnalysisResult # Null
    /\ storage.lastAnalysisTimestamp # Null
    /\ clock - ParseInt(storage.lastAnalysisTimestamp) <= OneHour

\* if (savedResult && savedTimestamp) { age = Date.now() - parseInt(...);
\* if (age < oneHour) ... }   (page.tsx:61-64, releases/page.tsx:34-38)
IsFresh(storage) ==
    /\ storage.lastAnalysisResult # Null
    /\ storage.lastAnalysisTimestamp # Null
    /\ clock - ParseInt(storage.lastAnalysisTimestamp) < OneHour

CacheInit ==
    /\ pc = "idle"
    /\ fw = FwIdle
    /\ log = <<>>
    /\ waits = <<>>
    /\ metricsData = Null
    /\ healthScore = Null
    /\ NoRun
    /\ localStorage = NoStorage
    /\ clock = 0
    /\ view = NoView

pagesOnly ==
    <<fw, log, waits, metricsData, healthScore, server, run, call, emitted, lastEvent, delivered>>

\* Time passes.
Tick ==
    /\ clock + TickMinutes <= MaxClock
    /\ clock' = clock + TickMinutes
    /\ UNCHANGED <<pc, localStorage, view>>
    /\ UNCHANGED pagesOnly

\* The home page is opened: the effect of page.tsx:52-74.
HomeMounted ==
    /\ pc = "idle"
    /\ view.page = "none"
    /\ view' = IF IsFresh(localStorage)
               THEN LET parsed == JSONParse(localStorage.lastAnalysisResult) IN
                    [NoView EXCEPT !.page = "home", !.result = parsed,
                                   !.repository = <<parsed.owner, parsed.name>>]
               ELSE [NoView EXCEPT !.page = "home"]
    /\ UNCHANGED <<pc, localStorage, clock>>
    /\ UNCHANGED pagesOnly

\* The form is submitted: handleAnalyze up to its await (page.tsx:82-100).
handleAnalyze ==
    /\ pc = "idle"
    /\ view.page = "home"
    /\ \E repository \in Requests \cup {<<"octo">>} :
          IF ~ValidFormat(repository)
          THEN /\ view' = [view EXCEPT !.repository = repository,
                                       !.error = Error("Invalid format. Use: owner/repo")]
               /\ pc' = pc
          ELSE /\ view' = [view EXCEPT !.repository = repository, !.loading = TRUE,
                                       !.error = Null, !.result = Null]
               /\ pc' = "handleAnalyze"
    /\ UNCHANGED <<localStorage, clock>>
    /\ UNCHANGED pagesOnly

\* analyzeRepository has returned to handleAnalyze (page.tsx:100-107, 113).
AnalyzeReturned ==
    /\ pc = "handleAnalyze"
    /\ \E metrics \in Snapshots(view.repository[1], view.repository[2]) :
          /\ view' = [view EXCEPT !.result = metrics, !.loading = FALSE]
          /\ localStorage' = SaveAnalysis(metrics)
    /\ pc' = "idle"
    /\ UNCHANGED clock
    /\ UNCHANGED pagesOnly

\* analyzeRepository has thrown to handleAnalyze (page.tsx:108-114).
AnalyzeThrew ==
    /\ pc = "handleAnalyze"
    /\ view' = [view EXCEPT !.error = Error("Analysis failed"), !.loading = FALSE]
    /\ pc' = "idle"
    /\ UNCHANGED <<localStorage, clock>>
    /\ UNCHANGED pagesOnly

\* The releases page is opened for ?repo=owner/name: its effect up to the
\* return of line 44 or the await of line 54 (releases/page.tsx:17-54).
ReleasesMounted ==
    /\ pc = "idle"
    /\ view.page = "none"
    /\ \E repo \in Requests :
          LET owner == repo[1]
              name == repo[2]
              parsed == JSONParse(localStorage.lastAnalysisResult)
          IN  IF IsFresh(localStorage) /\ parsed.owner = owner /\ parsed.name = name
              THEN /\ view' = [NoView EXCEPT !.page = "releases", !.repository = repo,
                                             !.releases = parsed.releases]
                   /\ pc' = pc
              ELSE /\ view' = [NoView EXCEPT !.page = "releases", !.repository = repo,
                                             !.loading = TRUE]
                   /\ pc' = "fetchReleases"
    /\ UNCHANGED <<localStorage, clock>>
    /\ UNCHANGED pagesOnly

\* analyzeRepository has returned to the releases page (releases/page.tsx:54-58, 62).
ReleasesAnalyzeReturned ==
    /\ pc = "fetchReleases"
    /\ \E metrics \in Snapshots(view.repository[1], view.repository[2]) :
          /\ view' = [view EXCEPT !.releases = metrics.releases, !.loading = FALSE]
          /\ localStorage' = SaveAnalysis(metrics)
    /\ pc' = "idle"
    /\ UNCHANGED clock
    /\ UNCHANGED pagesOnly

\* analyzeRepository has thrown to the releases page (releases/page.tsx:59-63).
ReleasesAnalyzeThrew ==
    /\ pc = "fetchReleases"
    /\ view' = [view EXCEPT !.error = Error("Failed to load releases"), !.loading = FALSE]
    /\ pc' = "idle"
    /\ UNCHANGED <<localStorage, clock>>
    /\ UNCHANGED pagesOnly

\* The user leaves the page.
Leave ==
    /\ pc = "idle"
    /\ view.page # "none"
    /\ view' = NoView
    /\ UNCHANGED <<pc, localStorage, clock>>
    /\ UNCHANGED pagesOnly

CacheNext ==
    \/ Tick
    \/ HomeMounted
    \/ handleAnalyze
    \/ AnalyzeReturned
    \/ AnalyzeThrew
    \/ ReleasesMounted
    \/ ReleasesAnalyzeReturned
    \/ ReleasesAnalyzeThrew
    \/ Leave

SpecCache == CacheInit /\ [][CacheNext]_vars

\* A page is opened in this step.
Mounts == view.page = "none" /\ view'.page # "none"

\* The page opened in this step shows the cached snapshot.
ReusesCache ==
    /\ Mounts
    /\ \/ view'.page = "home" /\ view'.result # Null
       \/ view'.page = "releases" /\ ~view'.loading

\* This step asks for the analysis of owner/repo: the releases page is opened
\* for it, or the form of the home page is submitted with it.
RequestsRepository ==
    \/ Mounts /\ view'.page = "releases"
    \/ /\ pc = "idle" /\ view.page = "home" /\ view'.page = "home" /\ view' # view
       /\ ValidFormat(view'.repository)

\* An analyzeRepository call is awaited.
Analyzing == pc \in {"handleAnalyze", "fetchReleases"}

IssuesFetched == pc \notin {"start", "fetchRepository", "fetchIssues", "failed"}

\* C25: the list fetchIssues returns holds no item with a pull_request
\* marker and at most 500 items, whatever the pages of the platform are.
C25_IssuesWithinLimit ==
    IssuesFetched =>
        /\ run.issues.prs = 0
        /\ IssuesLength(run.issues) <= 500

\* The part of it that holds: no pull request is ever in the list.
C25_NoPullRequests == IssuesFetched => run.issues.prs = 0

\* The request of a commits page has ended, retries included, with a 5xx
\* status.
CommitsServerError ==
    /\ pc = "fetchCommits"
    /\ fw.phase = "returned"
    /\ fw.status >= 500

\* C26: when a commits page request ends with a 5xx status after the
\* retries, fetchCommits returns the commits of the earlier pages and the run
\* goes on to the releases without a failure event; no later step changes the
\* commits, so the returned record counts exactly them and is scored with
\* that count; the list never holds more than 1000 commits.
C26_PartialCommitsOnServerError ==
    /\ [][CommitsServerError =>
            /\ run'.commits = call.acc
            /\ pc' = "fetchReleases"
            /\ emitted'[1] = Ev("commits", "Fetched commits", 55)]_vars
    /\ [][run'.commits # run.commits => pc = "fetchCommits"]_vars
    /\ [](pc = "done" =>
            /\ metricsData.totalCommitsLast90Days = SumN(run.commits)
            /\ healthScore = calculateHealthScore(metricsData))
    /\ [](/\ SumN(run.commits) <= 1000
          /\ pc = "fetchCommits" => SumN(call.acc) <= 1000)

\* A run has returned 300 commits of a repository that has 1030: the fourth
\* page of its commits ended with a 5xx status.
C26_Witness ==
    /\ pc = "done"
    /\ server = LongHistoryRepo
    /\ metricsData.totalCommitsLast90Days = 300
    /\ SumN(PagesUpTo(server.commitPages, Len(server.commitPages))) = 1030

\* C27: fetchReleases called with limit L (1000 by analyzeRepository) never
\* returns more than L releases, and never requests another page once it has
\* accumulated L releases, whatever the pages of the platform hold.
C27_ReleasesWithinLimit ==
    /\ SumN(run.releases) <= 1000
    /\ pc = "fetchReleases" => SumN(call.acc) < 1000

\* The part of it that holds: no page is requested once the limit is reached.
C27_NoRequestBeyondLimit == pc = "fetchReleases" => SumN(call.acc) < 1000

(***************************************************************************)
(* The analytics fetchers.                                                 *)
(***************************************************************************)

\* fetchPRStats returns in this step.
PRStatsReturns ==
    /\ pc \in {"fetchPRStats.merged", "fetchPRStats.closed"}
    /\ pc' \notin {"fetchPRStats.merged", "fetchPRStats.closed"}

\* merged / (merged + closed) * 100, or 0 without any closed pull request.
MergeRateOf(merged, closed) ==
    IF merged + closed > 0 THEN Frac(merged * 100, merged + closed) ELSE Frac(0, 1)

\* C28: the mergeRate fetchPRStats returns is merged / (merged + closed) *
\* 100 when merged + closed > 0 and 0 otherwise, merged and closed being the
\* total counts of its two search queries (0 for a query that got no count),
\* and it never throws: analyzeRepository always goes on to the code
\* frequency, which a throw would skip.
C28_MergeRate ==
    /\ [][PRStatsReturns =>
            /\ pc' = "fetchCodeFrequency"
            /\ \E merged \in {0, server.mergedPRs}, closed \in {0, server.unmergedPRs} :
                  FracEq(run'.prMergeRate, MergeRateOf(merged, closed))]_vars
    /\ [][(/\ PRStatsReturns
           /\ pc = "fetchPRStats.closed"
           /\ fw.phase = "returned" /\ Ok(fw.status)
           /\ call.merged = server.mergedPRs)
             => FracEq(run'.prMergeRate, MergeRateOf(server.mergedPRs, server.unmergedPRs))]_vars
    /\ [][run'.prMergeRate # run.prMergeRate => PRStatsReturns]_vars

\* Both queries of a repository with 3 merged and 1 closed unmerged pull
\* requests were answered: the rate is 75.
C28_Witness ==
    /\ pc = "fetchCodeFrequency"
    /\ server.mergedPRs = 3 /\ server.unmergedPRs = 1
    /\ FracEq(run.prMergeRate, Frac(75, 1))

\* The second query of fetchPRStats (closed, unmerged) has failed: its
\* request was rejected on every attempt or answered with a non-OK status.
ClosedQueryFails ==
    /\ pc = "fetchPRStats.closed"
    /\ FwDone(fw)
    /\ Failed(fw)

\* C29: each query of fetchPRStats is absorbed on its own: when the second
\* query fails, by status or at network level, only its count becomes 0 and
\* the count the first query got is kept, so the rate returned is that of
\* (merged, 0).
C29_QueriesAbsorbedIndependently ==
    [][ClosedQueryFails => FracEq(run'.prMergeRate, MergeRateOf(call.merged, 0))]_vars

\* The part of it that holds: a query answered with a non-OK status.
C29_StatusAbsorbed ==
    [][(ClosedQueryFails /\ fw.phase = "returned")
          => FracEq(run'.prMergeRate, MergeRateOf(call.merged, 0))]_vars

\* fetchStarGrowth returns in this step.
StarGrowthReturns == pc = "fetchStarGrowth" /\ pc' # pc

\* How many of the first k entries of a list of starring events are strictly
\* younger than 30 days.
RECURSIVE YoungAmongFirst(_, _)
YoungAmongFirst(stargazers, k) ==
    IF stargazers = <<>> \/ k <= 0 THEN 0
    ELSE LET taken == Min(stargazers[1].n, k)
             age == Now - stargazers[1].starred_at
         IN  (IF age < 30 * 24 * 60 * 60 THEN taken ELSE 0)
             + YoungAmongFirst(Tail(stargazers), k - taken)

\* C30: fetchStarGrowth never throws (analyzeRepository always goes on to
\* the PR statistics); after a failed request both fields are 0; in every
\* result starsPerMonth = recentGrowth = the number of the fetched starring
\* events (the first 100 of the list) that are strictly younger than 30 days,
\* hence 0 for an empty list and at most 100.
C30_StarGrowth ==
    /\ [][StarGrowthReturns =>
            /\ pc' = "fetchPRStats.merged"
            /\ run'.starsPerMonth = run'.recentStarGrowth
            /\ run'.starsPerMonth \in 0..100
            /\ run'.starsPerMonth =
                  IF fw.phase = "thrown" \/ fw.status \notin 200..299
                  THEN 0
                  ELSE YoungAmongFirst(server.stargazers, 100)]_vars
    /\ [][(run'.starsPerMonth # run.starsPerMonth
           \/ run'.recentStarGrowth # run.recentStarGrowth) => StarGrowthReturns]_vars

\* The stargazers request of a repository with 130 stargazers was answered:
\* of the 100 fetched, 90 are old, one is exactly 30 days old and 9 are
\* younger.
C30_Witness ==
    /\ pc = "fetchPRStats.merged"
    /\ SumN(server.stargazers) = 130
    /\ \E k \in 1..Len(server.stargazers) : server.stargazers[k].starred_at = Now - Days(30)
    /\ run.starsPerMonth = 9
    /\ run.recentStarGrowth = 9

(***************************************************************************)
(* The polling of the code frequency.                                      *)
(***************************************************************************)

\* The code-frequency fields of the run are all 0.
NoCodeChanges(r) ==
    r.codeAdditions = 0 /\ r.codeDeletions = 0 /\ r.totalCodeChanges = 0

\* C31: fetchCodeFrequency polls at most 3 times (the poll in progress or
\* just answered is number attempts + 1) and waits at most twice, 2000 ms
\* each time; a wait starts only when a poll has been answered 202 and only
\* a wait is followed by another poll; the third poll is followed by no wait;
\* the function returns zeros when its last poll was answered 202 or with a
\* non-2xx status or was rejected; and it never throws: the step that ends
\* the polling ends the run with a record.
C31_CodeFrequencyPolling ==
    /\ [](pc = "fetchCodeFrequency" => call.attempts + 1 \in 1..3)
    /\ [](pc = "fetchCodeFrequency.wait" => (call.attempts \in 1..2 /\ call.timer = 2000))
    /\ [][(pc # "fetchCodeFrequency.wait" /\ pc' = "fetchCodeFrequency.wait") =>
            /\ pc = "fetchCodeFrequency"
            /\ fw.phase = "returned" /\ fw.status = 202
            /\ call.attempts + 1 < 3
            /\ call'.attempts = call.attempts + 1]_vars
    /\ [][(pc' = "fetchCodeFrequency" /\ (pc # pc' \/ call'.attempts # call.attempts)) =>
            \/ pc = "fetchPRStats.merged" \/ pc = "fetchPRStats.closed"
            \/ pc = "fetchCodeFrequency.wait" /\ call'.attempts = call.attempts]_vars
    /\ [][(pc = "fetchCodeFrequency" /\ pc' # pc) =>
            /\ pc' \in {"fetchCodeFrequency.wait", "done"}
            /\ (call.attempts + 1 = 3 => pc' = "done")
            /\ (fw.status # 202 \/ fw.phase = "thrown") => pc' = "done"
            /\ (/\ pc' = "done"
                /\ fw.phase = "thrown" \/ fw.status = 202 \/ fw.status \notin 200..299)
                   => NoCodeChanges(run')]_vars

\* The third poll has just been answered 202, after two waits.
C31_Witness ==
    /\ pc = "fetchCodeFrequency"
    /\ call.attempts = 2
    /\ fw.phase = "returned"
    /\ fw.status = 202
    /\ Len(server.codeFrequency) > 0

(***************************************************************************)
(* The response-time sample.                                               *)
(***************************************************************************)

\* The closed issues of the fetched list that have at least one comment.
Commented(issues) ==
    {issues.candidates[k] : k \in {j \in 1..Len(issues.candidates) :
                                      issues.candidates[j].comments > 0}}

\* The hours from the creation of the issue to the first comment of the
\* thread written by an account of type User, or Null without such a comment.
FirstUserResponse(issue, thread) ==
    LET byUser == {k \in 1..Len(thread) : thread[k].type = "User"} IN
    IF byUser = {} THEN Null
    ELSE LET first == CHOOSE k \in byUser : \A j \in byUser : k <= j
         IN  Frac(thread[first].created_at - issue.created_at, 60 * 60)

C33_RunEnds == <>(pc \in {"done", "failed"})

\* C33, the part that holds: the commits list is not filtered, so every full
\* page brings the run 100 commits closer to the limit, and no page is
\* requested once the limit is reached, even when the list has no end.
C33_CommitsPagingBounded ==
    [](pc = "fetchCommits" =>
          /\ SumN(call.acc) < CommitsLimit
          /\ server.endless => SumN(call.acc) = PerPage * Len(call.acc))

(***************************************************************************)
(* The blocks of calculateHealthScore.                                     *)
(***************************************************************************)

\* The sum of the five blocks before Math.min / Math.max.
SubScoreSum(m) ==
    ResponseTimeScore(m) + IssueResolutionScore(m) + CommitActivityScore(m)
    + BusFactorScore(m) + ReleaseActivityScore(m)

\* C34: each of the five sub-scores of calculateHealthScore lies in 0..20,
\* so that the sum lies in 0..100 and the value returned is the sum itself:
\* the final clamp changes nothing.
C34_SubScoresWithinTwenty ==
    pc = "scored" =>
        /\ ResponseTimeScore(metricsData) \in 0..20
        /\ IssueResolutionScore(metricsData) \in 0..20
        /\ CommitActivityScore(metricsData) \in 0..20
        /\ BusFactorScore(metricsData) \in 0..20
        /\ ReleaseActivityScore(metricsData) \in 0..20
        /\ healthScore = SubScoreSum(metricsData)

\* The worst input of the grid has been scored: two blocks give 0 and three
\* give 4.
C34_Witness ==
    /\ pc = "scored"
    /\ IssueResolutionScore(metricsData) = 0
    /\ CommitActivityScore(metricsData) = 0
    /\ metricsData.openIssuesCount > 0
    /\ healthScore = 12

(***************************************************************************)
(* The headers of the requests of a run.  The token, when the user has     *)
(* stored one, is the item 'github_token' of localStorage; it does not     *)
(* change while a run is under way.                                        *)
(***************************************************************************)

\* process.env.NEXT_PUBLIC_GITHUB_TOKEN: not set in the build.
NEXT_PUBLIC_GITHUB_TOKEN == ""

\* getGitHubToken (github.ts:9-12) in the browser; "" is `no token`, which
\* line 20 treats like an empty one.
getGitHubToken ==
    IF NEXT_PUBLIC_GITHUB_TOKEN # "" THEN NEXT_PUBLIC_GITHUB_TOKEN
    ELSE IF "github_token" \in DOMAIN localStorage THEN localStorage.github_token
    ELSE ""

\* getHeaders (github.ts:14-25)
getHeaders ==
    IF getGitHubToken # ""
    THEN [Accept |-> "application/vnd.github.v3+json",
          Authorization |-> "Bearer " \o getGitHubToken]
    ELSE [Accept |-> "application/vnd.github.v3+json"]

\* A request is on the wire: the fetch of github.ts:42 or of metrics.ts:352.
RequestInFlight == fw.phase \in {"fetch", "bare"}

\* The headers of the request on the wire: those written out at metrics.ts:354
\* for the closed-issue count, { ...getHeaders(), Accept: star+json } for the
\* stargazers (github.ts:413), getFetchOptions().headers for every other one
\* (github.ts:41).
RequestHeaders ==
    IF fw.phase = "bare" THEN [Accept |-> "application/vnd.github.v3+json"]
    ELSE IF pc = "fetchStarGrowth"
    THEN [getHeaders EXCEPT !.Accept = "application/vnd.github.star+json"]
    ELSE getHeaders

\* Runs in a browser whose user has or has not stored a token.
AuthInit ==
    /\ pc = "start"
    /\ fw = FwIdle
    /\ log = <<>>
    /\ waits = <<>>
    /\ metricsData = Null
    /\ healthScore = Null
    /\ server \in {EmptyRepo, SupportRepo}
    /\ run = RunStart
    /\ call = CallIdle
    /\ emitted = <<>>
    /\ lastEvent = Null
    /\ delivered = {}
    /\ localStorage \in {[github_token |-> t] : t \in {"", "ghp_16C7e42F292c"}}
    /\ clock = Null
    /\ view = Null

SpecAuth == AuthInit /\ [][Next]_vars

\* C35: with a token configured, every request of a run carries the header
\* Authorization: Bearer <token>.
C35_EveryRequestAuthorized ==
    (getGitHubToken # "" /\ RequestInFlight) =>
        /\ "Authorization" \in DOMAIN RequestHeaders
        /\ RequestHeaders.Authorization = "Bearer " \o getGitHubToken

\* C35, the part that holds: every request made through fetchWithRetry, the
\* stargazers request with its own Accept header included, carries the
\* token when there is one and no Authorization header otherwise.
C35_RetriedRequestsAuthorized ==
    fw.phase = "fetch" =>
        IF getGitHubToken # ""
        THEN /\ "Authorization" \in DOMAIN RequestHeaders
             /\ RequestHeaders.Authorization = "Bearer " \o getGitHubToken
        ELSE "Authorization" \notin DOMAIN RequestHeaders

(***************************************************************************)
(* The 'additional' step.                                                  *)
(***************************************************************************)

\* fetchLanguages is over and has thrown (a rejected request or a non-OK
\* status, github.ts:344-346).
LanguagesFetchFails == pc = "fetchLanguages" /\ FwDone(fw) /\ Failed(fw)

\* C36: a failure of the languages fetch is isolated from the open-PR count:
\* the count is still requested, so that openPullRequests of the result is
\* the server's total count.
C36_LanguagesFailureIsolated ==
    [][LanguagesFetchFails => pc' = "fetchOpenPullRequestsCount"]_vars

\* C36, the part that holds: when the open-PR count fails (or not), the
\* languages fetched before it are kept, and the count is the server's total
\* when its request succeeded and 0 otherwise.
C36_PullRequestFailureIsolated ==
    [][(pc = "fetchOpenPullRequestsCount" /\ pc' # pc) =>
          /\ run.languages = server.languages
          /\ run'.languages = run.languages
          /\ run'.openPullRequests = IF Failed(fw) THEN 0 ELSE server.openPRs]_vars

(***************************************************************************)
(* SpecStale: the releases page while its ?repo= parameter changes.  The   *)
(* effect of releases/page.tsx:17-67 runs again for every new value; it    *)
(* has no cleanup, so the analyses it started earlier stay under way.  In  *)
(* this specification run is the list of those analyses, each named by the *)
(* repository it was started for, in the order they were started.          *)
(***************************************************************************)

\* The analyses that can be under way at once.
MaxInFlight == 2

\* The releases the platform has for a repository (here one tag that names it).
ReleasesOf(repo) == <<repo[1] \o "/" \o repo[2] \o "@v1.0">>

\* The record analyzeRepository(owner, name) returns, as far as the page
\* reads it.
MetricsOf(repo) == [owner |-> repo[1], name |-> repo[2], releases |-> ReleasesOf(repo)]

\* q without its k-th element.
Without(q, k) == SubSeq(q, 1, k - 1) \o SubSeq(q, k + 1, Len(q))

StaleInit ==
    /\ pc = "idle"
    /\ fw = FwIdle
    /\ log = <<>>
    /\ waits = <<>>
    /\ metricsData = Null
    /\ healthScore = Null
    /\ server = Null /\ call = Null
    /\ emitted = <<>> /\ lastEvent = Null /\ delivered = {}
    /\ run = <<>>
    /\ localStorage = NoStorage
    /\ clock = 0
    /\ view = NoView

staleOnly ==
    <<pc, fw, log, waits, metricsData, healthScore, server, call, emitted, lastEvent, delivered>>

\* The page is opened for ?repo=owner/name, or the parameter of the open page
\* changes: the effect up to the return of line 44 or the await of line 54
\* (releases/page.tsx:17-54, 66).  The releases and the error on display stay
\* as they are when the page was open already.
RepoRequested ==
    /\ Len(run) < MaxInFlight
    /\ \E repo \in Requests :
          /\ view.page = "releases" => repo # view.repository
          /\ LET before == IF view.page = "releases" THEN view ELSE NoView
                 opened == [before EXCEPT !.page = "releases", !.repository = repo]
                 parsed == JSONParse(localStorage.lastAnalysisResult)
             IN  IF IsFresh(localStorage) /\ parsed.owner = repo[1] /\ parsed.name = repo[2]
                 THEN /\ view' = [opened EXCEPT !.releases = parsed.releases,
                                                !.loading = FALSE]
                      /\ run' = run
                 ELSE /\ view' = [opened EXCEPT !.loading = TRUE]
                      /\ run' = Append(run, repo)
    /\ UNCHANGED <<localStorage, clock>>
    /\ UNCHANGED staleOnly

\* One of the analyses under way returns: setReleases, both setItem calls and
\* the finally block (releases/page.tsx:54-58, 62).
StaleAnalyzeReturned ==
    /\ \E k \in 1..Len(run) :
          /\ view' = [view EXCEPT !.releases = MetricsOf(run[k]).releases, !.loading = FALSE]
          /\ localStorage' = SaveAnalysis(MetricsOf(run[k]))
          /\ run' = Without(run, k)
    /\ UNCHANGED clock
    /\ UNCHANGED staleOnly

\* One of the analyses under way throws (releases/page.tsx:59-63).
StaleAnalyzeThrew ==
    /\ \E k \in 1..Len(run) :
          /\ view' = [view EXCEPT !.error = Error("Failed to load releases"),
                                  !.loading = FALSE]
          /\ run' = Without(run, k)
    /\ UNCHANGED <<localStorage, clock>>
    /\ UNCHANGED staleOnly

\* Time passes.
StaleTick ==
    /\ clock + TickMinutes <= MaxClock
    /\ clock' = clock + TickMinutes
    /\ UNCHANGED <<localStorage, view, run>>
    /\ UNCHANGED staleOnly

StaleNext == RepoRequested \/ StaleAnalyzeReturned \/ StaleAnalyzeThrew \/ StaleTick

SpecStale == StaleInit /\ [][StaleNext]_vars

\* C37: once every analysis the releases page started has finished (none of
\* them with an error), the releases on display and the snapshot in the cache
\* are those of the repository requested last.
C37_LatestRequestWins ==
    (view.page = "releases" /\ run = <<>> /\ view.error = Null) =>
        /\ view.releases = ReleasesOf(view.repository)
        /\ localStorage.lastAnalysisResult # Null
        /\ JSONParse(localStorage.lastAnalysisResult).owner = view.repository[1]
        /\ JSONParse(localStorage.lastAnalysisResult).name = view.repository[2]

\* C37, as a step: an analysis that returns after a newer one was started
\* writes neither the releases on display nor the cache.
C37_SupersededRunDiscarded ==
    [][\A k \in 1..Len(run) :
          (k < Len(run) /\ run' = Without(run, k)) =>
              (view'.releases = view.releases /\ localStorage' = localStorage)]_vars

\* C37, the part that holds: when the only analysis under way returns (and
\* none has failed), the releases on display and the cache are its own.
C37_SerialRequestsAgree ==
    [][(Len(run) = 1 /\ run' = <<>> /\ view'.error = Null) =>
          /\ view'.releases = ReleasesOf(run[1])
          /\ JSONParse(localStorage'.lastAnalysisResult).owner = run[1][1]
          /\ JSONParse(localStorage'.lastAnalysisResult).name = run[1][2]]_vars

(***************************************************************************)
(* The last attempt of fetchWithRetry (SpecRetry).                         *)
(***************************************************************************)

\* The call has made its last permitted attempt.
LastAttemptMade == Len(log) = fw.retries + 1

\* C38: a retryable status (403 or 5xx) at the last permitted attempt is
\* returned to the caller as the response, nothing is thrown; the call throws
\* only when its last permitted attempt failed at network level, and then the
\* network error; the error 'Max retries reached' after the loop is never
\* thrown.
C38_LastAttemptOutcome ==
    pc = "retrying" =>
        /\ (LastAttemptMade /\ IsRetryStatus(log[Len(log)])) =>
               (fw.phase = "returned" /\ fw.status = log[Len(log)] /\ fw.error = "")
        /\ fw.phase = "thrown" =>
               (LastAttemptMade /\ log[Len(log)] = NoResponse /\ fw.error = "network")
        /\ fw.error # "Max retries reached"

\* A call without retries was answered 403 at its only attempt and has
\* returned that response.
C38_Witness ==
    /\ pc = "retrying"
    /\ fw.retries = 0
    /\ log = <<403>>
    /\ fw.phase = "returned"
    /\ fw.status = 403

(***************************************************************************)
(* Monotonicity of calculateHealthScore (SpecScore).                       *)
(***************************************************************************)

\* x <= y for two fractions.
AtMost(x, y) == x.num * y.den <= y.num * x.den

\* The inputs that differ from m in the median response time only, which is
\* not null and not shorter than that of m.
SlowerResponses(m) ==
    IF m.medianIssueResponseTime = Null THEN {}
    ELSE {[m EXCEPT !.medianIssueResponseTime = t] :
             t \in {u \in ScoreMedians \ {Null} : AtMost(m.medianIssueResponseTime, u)}
                   \cup {Frac(m.medianIssueResponseTime.num + 1,
                               m.medianIssueResponseTime.den)}}

\* ... in the top-contributor ratio only, which is not smaller.
HigherRatios(m) ==
    {[m EXCEPT !.topContributorRatio = r] :
        r \in {u \in ScoreRatios : AtMost(m.topContributorRatio, u)}
              \cup {Frac(m.topContributorRatio.num + 1, m.topContributorRatio.den)}}

\* ... in the age of the latest release only, which is not younger.
OlderReleases(m) ==
    IF m.latestRelease = Null THEN {}
    ELSE {[m EXCEPT !.latestRelease = rel] :
             rel \in {u \in ScoreReleases \ {Null} : u.daysAgo >= m.latestRelease.daysAgo}
                     \cup {[daysAgo |-> m.latestRelease.daysAgo + 1]}}

\* ... in the 90-day commit count only, which is not smaller.
MoreCommits(m) ==
    {[m EXCEPT !.totalCommitsLast90Days = c] :
        c \in {u \in ScoreCommitCounts : u >= m.totalCommitsLast90Days}
              \cup {m.totalCommitsLast90Days + 1}}

\* ... in the closed-issue count only, which is not smaller, the open-issue
\* count being positive.
MoreClosedIssues(m) ==
    IF m.openIssuesCount = 0 THEN {}
    ELSE {[m EXCEPT !.closedIssuesCount = c] :
             c \in {u \in ScoreClosedCounts : u >= m.closedIssuesCount}
                   \cup {m.closedIssuesCount + 1}}

\* C39: calculateHealthScore is monotone in each input, the others fixed: the
\* score does not rise with a longer (non-null) median response time, a
\* higher top-contributor ratio or an older latest release, and it does not
\* fall with more commits in the last 90 days or with more closed issues
\* beside the same positive number of open ones.
C39_Monotone ==
    pc = "scored" =>
        /\ \A m \in SlowerResponses(metricsData) \cup HigherRatios(metricsData)
                     \cup OlderReleases(metricsData) :
              calculateHealthScore(m) <= healthScore
        /\ \A m \in MoreCommits(metricsData) \cup MoreClosedIssues(metricsData) :
              calculateHealthScore(m) >= healthScore

\* An input with 9 commits, open issues and a dated release has been scored;
\* one more commit and one more closed issue each raise the score, a release
\* one day older lowers it.
C39_Witness ==
    /\ pc = "scored"
    /\ metricsData.totalCommitsLast90Days = 9
    /\ metricsData.openIssuesCount = 7
    /\ metricsData.closedIssuesCount = 1
    /\ metricsData.latestRelease = [daysAgo |-> 30]
    /\ calculateHealthScore([metricsData EXCEPT !.totalCommitsLast90Days = 10]) = healthScore + 1
    /\ calculateHealthScore([metricsData EXCEPT !.closedIssuesCount = 2]) > healthScore
    /\ calculateHealthScore([metricsData EXCEPT !.latestRelease = [daysAgo |-> 31]])
          = healthScore - 4

(***************************************************************************)
(* A run without commits.                                                  *)
(***************************************************************************)

\* fetchCommits is about to return an empty list: its first page is empty,
\* or the request for it ended with a 5xx status.
CommitsFetchReturnsNone ==
    /\ pc = "fetchCommits"
    /\ FwDone(fw)
    /\ fetchCommitsStep(fw, call, server).kind = "return"
    /\ fetchCommitsStep(fw, call, server).acc = <<>>

\* C40: when the commits fetch fails or returns no commits, the run goes on
\* without commits, and the record it returns scores 0 in the commit-activity
\* block and the full 20 in the top-contributor block (a ratio of 0).
C40_NoCommitsSubScores ==
    /\ [][(CommitsFetchThrows \/ CommitsFetchReturnsNone) =>
             (SumN(run'.commits) = 0 /\ pc' = "fetchReleases")]_vars
    /\ [](pc = "done" /\ SumN(run.commits) = 0 =>
             /\ CommitActivityScore(metricsData) = 0
             /\ BusFactorScore(metricsData) = 20
             /\ healthScore = ResponseTimeScore(metricsData)
                              + IssueResolutionScore(metricsData)
                              + 0 + 20 + ReleaseActivityScore(metricsData))

\* A run on the repository with 1030 recent commits has returned without
\* commits: no response time and no issues (10 + 10), 0 for the commits, 20
\* for the contributors, 4 without a release.
C40_Witness ==
    /\ pc = "done"
    /\ server = LongHistoryRepo
    /\ run.commits = <<>>
    /\ metricsData.totalCommitsLast90Days = 0
    /\ healthScore = 44

====
